---- MODULE Spec2Model ----
(***************************************************************************)
(* State-machine model of the BackController arrival-management backends.  *)
(*                                                                         *)
(*   Spec          : ATC_11.py, MultiAircraftCoordinator (time-window      *)
(*                   scheduling at the merge point MP) behind the socket   *)
(*                   handlers connect / disconnect / aircraft_data.        *)
(*   SpecClock     : the same with the wall clock running and the emits    *)
(*                   entered in a history.                                 *)
(*   SpecOptimizer : ATC_7.py (FlightOptimizer) and ATC_9.py               *)
(*                   (AdvancedFlightOptimizer) behind the same handlers,   *)
(*                   the wall clock running.                               *)
(*   SpecConflict  : _detect_conflicts of ATC_9.py applied to predicted    *)
(*                   trajectories.                                         *)
(*   SpecRaw       : ATC_11.py given telemetry with 'N/A' for a number.    *)
(*   SpecExecute   : the delivery of commands: the timed tick of ATC_11.py *)
(*                   and _multi_aircraft_optimization / _execute_commands  *)
(*                   of ATC_9.py applied to tracked aircraft.              *)
(*   SpecAuto      : ATC_backend_91.py, the automatic commands to CSN202,  *)
(*                   its handlers running in threads of their own.         *)
(*   SpecDescent   : descent_control.py, DescentController evaluated on    *)
(*                   FlightState values.                                   *)
(*   SpecPaths     : _optimize_paths of ATC_11.py applied to schedules.    *)
(*   SpecWind      : get_wind_at_altitude applied to wind tables.          *)
(*   SpecHistory   : ATC_4.py, _send_command and command_history.          *)
(*   SpecVertical  : the command generators of ATC_11.py, ATC_7.py and     *)
(*                   ATC_9.py applied to one aircraft, through combo.      *)
(*   SpecClients   : ATC_11.py with several frontend clients.              *)
(*                                                                         *)
(* Conventions.                                                            *)
(*  - Every quantity the code holds in minutes (eta_minutes, assigned_time,*)
(*    time_adjustment, conflict time) is held here as an integer number of *)
(*    1/MinuteScale minutes, so that 10.5 min is 630.  The inputs are      *)
(*    chosen so that the code's divisions are exact in this unit.          *)
(*  - A telemetry record carries distance_to_mp and ground_speed directly: *)
(*    the code derives them from lat/lon by the haversine formula and from *)
(*    the wind table, which have no integer model.                         *)
(*  - A Python dict of optional fields (kwargs, instructions) is a function*)
(*    whose domain is the set of keys present.                             *)
(*  - The callsigns of one snapshot are distinct.                          *)
(***************************************************************************)
EXTENDS Integers, Sequences, FiniteSets, TLC

VARIABLES
    program,          \* which backend runs: "ATC_11", "ATC_7", "ATC_9", ...
    is_connected,     \* ATCCommandManager.is_connected
    now,              \* time.time(), in seconds
    snapshot,         \* flight_data['aircraft_list'] of the last aircraft_data event
    outcome,          \* how the last call ended: "none" before any, "returned", or
                      \* the exception it raised
    schedule_result,  \* ATC_11: what _schedule_mp_sequence returned in the last tick
    combo_log,        \* the combo() calls of the last tick, in call order
    aircraft_states,  \* ATC_7, ATC_9: self.aircraft_states
    predicted,        \* ATC_9: the aircraft_list given to _detect_conflicts
    conflicts,        \* ATC_9: what _detect_conflicts returned
    last_emit,        \* history: per callsign, when 'atc_commands' was last emitted for
                      \* it (0: never, as the code's own last_command_time)
    prev_emit,        \* history: per callsign, when it was emitted the time before
    current_phase,    \* descent_control: DescentController.current_phase (its value)
    flight_state,     \* descent_control: the FlightState of the last evaluation
    descent_commands, \* descent_control: what calculate_descent_command returned last
    malformed,        \* the callsigns of snapshot whose record carries 'N/A' for a
                      \* number (lat, lon, altitude, ias or heading)
    solution,         \* ATC_9: optimized_solution of the last optimization, in order
    csn202_auto_commands_sent,  \* ATC_backend_91: the flag of the same name
    aircraft_data,    \* ATC_backend_91: the global list of the same name
    invocation,       \* ATC_backend_91: per handler thread, where it stands in
                      \* send_csn202_auto_descent_and_route
    auto_emits,       \* history, ATC_backend_91: the instructions emitted by
                      \* send_csn202_auto_descent_and_route since the last connect or
                      \* /reset_auto_commands
    path_decisions,   \* ATC_11: what _optimize_paths returned
    wind_data,        \* the wind table given to get_wind_at_altitude
    wind_query,       \* the altitude get_wind_at_altitude was last asked for, and
                      \* what it returned
    command_history,  \* ATC_4: ATCCommandManager.command_history
    all_sent,         \* history, ATC_4: every command _send_command has emitted
    clients           \* the frontend clients whose socket is open

vars == <<program, is_connected, now, snapshot, outcome, schedule_result, combo_log,
          aircraft_states, predicted, conflicts, last_emit, prev_emit,
          current_phase, flight_state, descent_commands, malformed, solution,
          csn202_auto_commands_sent, aircraft_data, invocation, auto_emits,
          path_decisions, wind_data, wind_query, command_history, all_sent, clients>>

optimizerVars == <<aircraft_states>>
conflictVars == <<predicted, conflicts>>
historyVars == <<last_emit, prev_emit>>
descentVars == <<current_phase, flight_state, descent_commands>>
backendVars == <<csn202_auto_commands_sent, aircraft_data, invocation, auto_emits>>
moreVars == <<path_decisions, wind_data, wind_query, command_history, all_sent, clients>>
unitVars == <<descentVars, malformed, solution, backendVars, moreVars>>

\* The backends do not import descent_control: no DescentController is evaluated.
NoDescentController ==
    /\ current_phase = "cruise"
    /\ flight_state = <<>>
    /\ descent_commands = <<>>

\* The threads of ATC_backend_91.py that run send_csn202_auto_descent_and_route: the
\* handler of the 'aircraft_data' event and the one of GET /trigger_auto_commands.
Threads == {"aircraft_data", "trigger_auto_commands"}

\* The globals of ATC_backend_91.py as the module sets them (lines 19-25).
NoBackend91 ==
    /\ csn202_auto_commands_sent = FALSE
    /\ aircraft_data = <<>>
    /\ invocation = [t \in Threads |-> "idle"]
    /\ auto_emits = <<>>

\* Nothing asked of _optimize_paths, get_wind_at_altitude and the command manager
\* of ATC_4.py; no frontend client.
NoUnits ==
    /\ path_decisions = <<>>
    /\ wind_data = <<>>
    /\ wind_query = <<>>
    /\ command_history = <<>>
    /\ all_sent = <<>>
    /\ clients = {}

----------------------------------------------------------------------------
(* Bounds of the model *)

MaxClockSteps == 3    \* how many times the wall clock is read anew

(* Units *)
MinuteScale == 60     \* model units per minute (the code's own /60 and *60)
StartTime == 1000     \* time.time() at start-up: epoch seconds, far above any cooldown


----------------------------------------------------------------------------
(* Telemetry *)

CallsignPool == <<"CSN202", "CCA101", "CES303">>
Callsigns == {CallsignPool[i] : i \in DOMAIN CallsignPool}

\* What FlightDataProcessor.process_data extracts of one aircraft, callsign aside.
\* ground_speed is what ias_to_tas and calculate_ground_speed_and_track give for
\* it in ATC_7 and ATC_9 (ATC_11 computes its own from ias).
Profiles ==
    { [flight_type |-> "ARRIVAL",   route_name |-> "A Arrival", altitude |-> 12000, ias |-> 220, distance_to_mp |-> 40, ground_speed |-> 240],
      [flight_type |-> "ARRIVAL",   route_name |-> "Unknown",   altitude |-> 9000,  ias |-> 220, distance_to_mp |-> 42, ground_speed |-> 240],
      [flight_type |-> "ARRIVAL",   route_name |-> "C Arrival", altitude |-> 12000, ias |-> 220, distance_to_mp |-> 80, ground_speed |-> 300],
      [flight_type |-> "ARRIVAL",   route_name |-> "B Arrival", altitude |-> 1500,  ias |-> 180, distance_to_mp |-> 8,  ground_speed |-> 160],
      [flight_type |-> "Unknown",   route_name |-> "A Arrival", altitude |-> 5000,  ias |-> 280, distance_to_mp |-> 10, ground_speed |-> 300],
      [flight_type |-> "DEPARTURE", route_name |-> "Unknown",   altitude |-> 3000,  ias |-> 200, distance_to_mp |-> 5,  ground_speed |-> 200] }

\* The telemetry of the runs that follow the wall clock.
ClockProfiles == {p \in Profiles : p.distance_to_mp = 40}

Absent == [flight_type |-> "absent"]

Record(c, p) ==
    [callsign |-> c, flight_type |-> p.flight_type, route_name |-> p.route_name,
     altitude |-> p.altitude, ias |-> p.ias, distance_to_mp |-> p.distance_to_mp,
     ground_speed |-> p.ground_speed]

CallsignsOf(list) == {list[i].callsign : i \in DOMAIN list}

Reverse(list) == [i \in DOMAIN list |-> list[Len(list) + 1 - i]]

\* The aircraft in the air: for each callsign of `pool` its profile, or Absent.
RECURSIVE ListOf(_, _, _)
ListOf(pool, fleet, i) ==
    IF i > Len(pool) THEN <<>>
    ELSE (IF fleet[i] = Absent THEN <<>> ELSE <<Record(pool[i], fleet[i])>>)
             \o ListOf(pool, fleet, i + 1)

FleetOf(pool, list, profiles) ==
    [i \in DOMAIN pool |->
        IF pool[i] \in CallsignsOf(list)
        THEN CHOOSE p \in profiles : Record(pool[i], p) \in {list[k] : k \in DOMAIN list}
        ELSE Absent]

\* The snapshots one telemetry change away from `list`: the same one again, one
\* aircraft moved to another profile, gone or new; the frontend lists the
\* aircraft in the order of `pool` or in the reverse of it.
NextSnapshots(pool, list, profiles) ==
    LET fleets == {FleetOf(pool, list, profiles)}
                      \cup {[f EXCEPT ![i] = p] : f \in {FleetOf(pool, list, profiles)},
                                                  i \in DOMAIN pool,
                                                  p \in profiles \cup {Absent}}
    IN  {ListOf(pool, f, 1) : f \in fleets} \cup {Reverse(ListOf(pool, f, 1)) : f \in fleets}

\* The aircraft of the runs that follow the wall clock.
ClockPool == SubSeq(CallsignPool, 1, 2)

----------------------------------------------------------------------------
(* ATC_11.py: MultiAircraftCoordinator *)

FINAL_ALTITUDE == 2000
FINAL_SPEED == 180
SEPARATION_TIME == 120
SPEED_LIMIT_ALT == 10000
SPEED_LIMIT == 250

Max(a, b) == IF a >= b THEN a ELSE b
Min(a, b) == IF a <= b THEN a ELSE b

\* The keys of flexible_zones, and each one's direct_start waypoint.
flexible_zones ==
    [r \in {"A Arrival", "B Arrival", "C Arrival", "D Arrival"} |->
        CASE r = "A Arrival" -> "IR15"
          [] r = "B Arrival" -> "IR15"
          [] r = "C Arrival" -> "L3"
          [] r = "D Arrival" -> "L17"]

\* 'Arrival' in route_name, over the route names of the model.
HasArrivalInName(route_name) ==
    route_name \in {"A Arrival", "B Arrival", "C Arrival", "D Arrival"}

_is_arrival_aircraft(aircraft) ==
    aircraft.flight_type = "ARRIVAL" \/ HasArrivalInName(aircraft.route_name)

_calculate_ground_speed(ias) == ias + 20

\* distance_to_mp / ground_speed * 60 if ground_speed > 0 else 999, in model units.
EtaMinutes(distance_to_mp, ground_speed) ==
    IF ground_speed > 0
    THEN (distance_to_mp * 60 * MinuteScale) \div ground_speed
    ELSE 999 * MinuteScale

_analyze_aircraft_state(aircraft) ==
    LET ground_speed == _calculate_ground_speed(aircraft.ias)
    IN  [callsign |-> aircraft.callsign,
         route_name |-> aircraft.route_name,
         altitude |-> aircraft.altitude,
         ias |-> aircraft.ias,
         distance_to_mp |-> aircraft.distance_to_mp,
         ground_speed |-> ground_speed,
         eta_minutes |-> EtaMinutes(aircraft.distance_to_mp, ground_speed),
         is_flexible |-> aircraft.route_name \in DOMAIN flexible_zones]

RECURSIVE _extract_arrival_aircraft(_)
_extract_arrival_aircraft(aircraft_list) ==
    IF aircraft_list = <<>> THEN <<>>
    ELSE LET rest == _extract_arrival_aircraft(Tail(aircraft_list))
         IN  IF _is_arrival_aircraft(Head(aircraft_list))
             THEN <<_analyze_aircraft_state(Head(aircraft_list))>> \o rest
             ELSE rest

\* Mutant: the list is left in the order it came in.
SortByEta_Unsorted(aircraft_list) == aircraft_list

\* aircraft_list.sort(key=lambda x: x['eta_minutes']): list.sort is stable, so
\* element i lands after every element with a smaller key and after every
\* earlier element with the same key.
SortByEta(aircraft_list) ==
    LET n == Len(aircraft_list)
        Before(j, i) ==
            \/ aircraft_list[j].eta_minutes < aircraft_list[i].eta_minutes
            \/ (aircraft_list[j].eta_minutes = aircraft_list[i].eta_minutes /\ j < i)
        Rank(i) == Cardinality({j \in 1..n : Before(j, i)}) + 1
    IN  [k \in 1..n |-> aircraft_list[CHOOSE i \in 1..n : Rank(i) = k]]

\* Mutant: every aircraft keeps its own ETA, the separation is not applied.
AssignedTime_NoSeparation(eta, schedule) == eta

\* Mutant: the slot is the previous one plus the separation, the aircraft's own
\* ETA is not taken into account.
AssignedTime_NoMax(eta, schedule) ==
    IF Len(schedule) = 0
    THEN eta
    ELSE schedule[Len(schedule)].assigned_time + (SEPARATION_TIME * MinuteScale) \div 60

\* The time window given to an aircraft of ETA `eta` after the slots in
\* `schedule` (lines 352-356).
AssignedTime(eta, schedule) ==
    IF Len(schedule) = 0
    THEN eta
    ELSE LET min_time == schedule[Len(schedule)].assigned_time
                            + (SEPARATION_TIME * MinuteScale) \div 60
         IN  Max(eta, min_time)

\* One entry of schedule_result (lines 358-367).
Slot(aircraft, schedule) ==
    LET eta == aircraft.eta_minutes
    IN  [callsign |-> aircraft.callsign,
         original_eta |-> eta,
         assigned_time |-> AssignedTime(eta, schedule),
         time_adjustment |-> AssignedTime(eta, schedule) - eta,
         aircraft |-> aircraft]

\* The one element of a singleton set.
The(S) == CHOOSE x \in S : TRUE

RECURSIVE ScheduleLoop(_, _)
ScheduleLoop(aircraft_list, schedule) ==
    IF aircraft_list = <<>> THEN schedule
    ELSE The({ScheduleLoop(Tail(aircraft_list), Append(schedule, slot)) :
                  slot \in {Slot(Head(aircraft_list), schedule)}})

\* aircraft_list after _schedule_mp_sequence sorted it in place: the slots'
\* aircraft, in slot order.
SchedulingOrder(schedule) == [i \in DOMAIN schedule |-> schedule[i].aircraft]

_schedule_mp_sequence(aircraft_list) ==
    The({ScheduleLoop(sorted, <<>>) : sorted \in {SortByEta(aircraft_list)}})

EmptyDict == <<>>

\* _choose_direct_path: [direct_start, MP] as a custom route.
_choose_direct_path(aircraft) ==
    [type |-> "direct", waypoints |-> <<flexible_zones[aircraft.route_name], "MP">>]

\* _choose_longer_path: the default route, no custom route is sent.
_choose_longer_path(aircraft) == [type |-> "default"]

\* Mutant: the test of the direct path is not strict.
PathDecision_DirectAtMinusOne(item) ==
    IF item.time_adjustment > 2 * MinuteScale
    THEN _choose_longer_path(item.aircraft)
    ELSE IF item.time_adjustment <= (-1) * MinuteScale
         THEN _choose_direct_path(item.aircraft)
         ELSE [type |-> "none"]

\* Mutant: a delayed aircraft is given the direct path.
PathDecision_DirectWhenDelayed(item) ==
    IF item.time_adjustment > 2 * MinuteScale
    THEN _choose_direct_path(item.aircraft)
    ELSE IF item.time_adjustment < (-1) * MinuteScale
         THEN _choose_direct_path(item.aircraft)
         ELSE [type |-> "none"]

\* The path decision of one slot (lines 386-398); "none" is Python's None.
PathDecision(item) ==
    IF item.time_adjustment > 2 * MinuteScale
    THEN _choose_longer_path(item.aircraft)
    ELSE IF item.time_adjustment < (-1) * MinuteScale
         THEN _choose_direct_path(item.aircraft)
         ELSE [type |-> "none"]

_optimize_paths(schedule) ==
    LET decided == {i \in DOMAIN schedule :
                        /\ schedule[i].aircraft.is_flexible
                        /\ PathDecision(schedule[i]).type # "none"}
    IN  [c \in {schedule[i].callsign : i \in decided} |->
            PathDecision(schedule[CHOOSE i \in decided : schedule[i].callsign = c])]

\* Mutant: the sign of the test is wrong, a delayed aircraft is sped up.
SpeedCommand_SignFlipped(item) ==
    LET altitude == item.aircraft.altitude
        ias == item.aircraft.ias
    IN  IF item.time_adjustment > 3 * MinuteScale
        THEN LET target_speed ==
                     IF altitude > SPEED_LIMIT_ALT
                     THEN Min(320, Max(ias, 300))
                     ELSE Min(SPEED_LIMIT, Max(ias, 240))
             IN  IF target_speed > ias THEN "speed" :> target_speed ELSE EmptyDict
        ELSE EmptyDict

\* The speed part of _coordinate_speed_altitude (lines 438-459).
SpeedCommand(item) ==
    LET altitude == item.aircraft.altitude
        ias == item.aircraft.ias
    IN  IF item.time_adjustment > 3 * MinuteScale
        THEN LET target_speed ==
                     IF altitude > SPEED_LIMIT_ALT
                     THEN Max(200, FINAL_SPEED)
                     ELSE Max(200, Min(SPEED_LIMIT, FINAL_SPEED))
             IN  IF ias > target_speed THEN "speed" :> target_speed ELSE EmptyDict
        ELSE IF item.time_adjustment < (-2) * MinuteScale
             THEN LET target_speed ==
                          IF altitude > SPEED_LIMIT_ALT
                          THEN Min(320, Max(ias, 300))
                          ELSE Min(SPEED_LIMIT, Max(ias, 240))
                  IN  IF target_speed > ias THEN "speed" :> target_speed ELSE EmptyDict
             ELSE EmptyDict

\* Mutant: the altitude step is taken off without the floor of FINAL_ALTITUDE.
_calculate_optimal_altitude_NoFloor(aircraft, time_adjustment, distance) ==
    IF aircraft.altitude <= FINAL_ALTITUDE
    THEN EmptyDict
    ELSE IF distance > 50
         THEN IF time_adjustment > 0
              THEN ("altitude" :> aircraft.altitude - 3000) @@ ("vertical_speed" :> -500)
              ELSE ("altitude" :> aircraft.altitude - 5000) @@ ("vertical_speed" :> -1000)
         ELSE IF distance > 20
              THEN ("altitude" :> aircraft.altitude - 4000) @@ ("vertical_speed" :> -800)
              ELSE ("altitude" :> FINAL_ALTITUDE) @@ ("vertical_speed" :> -1200)

_calculate_optimal_altitude(aircraft, time_adjustment, distance) ==
    IF aircraft.altitude <= FINAL_ALTITUDE
    THEN EmptyDict
    ELSE IF distance > 50
         THEN IF time_adjustment > 0
              THEN ("altitude" :> Max(FINAL_ALTITUDE, aircraft.altitude - 3000))
                       @@ ("vertical_speed" :> -500)
              ELSE ("altitude" :> Max(FINAL_ALTITUDE, aircraft.altitude - 5000))
                       @@ ("vertical_speed" :> -1000)
         ELSE IF distance > 20
              THEN ("altitude" :> Max(FINAL_ALTITUDE, aircraft.altitude - 4000))
                       @@ ("vertical_speed" :> -800)
              ELSE ("altitude" :> FINAL_ALTITUDE) @@ ("vertical_speed" :> -1200)

\* The commands of one slot: commands.update(altitude_command) lets the altitude
\* command win on a common key.
CoordinationOf(item) ==
    _calculate_optimal_altitude(item.aircraft, item.time_adjustment,
                                item.aircraft.distance_to_mp)
        @@ SpeedCommand(item)

_coordinate_speed_altitude(schedule) ==
    LET kept == {i \in DOMAIN schedule : CoordinationOf(schedule[i]) # EmptyDict}
    IN  [c \in {schedule[i].callsign : i \in kept} |->
            CoordinationOf(schedule[CHOOSE i \in kept : schedule[i].callsign = c])]

\* instructions as combo builds them from kwargs: vertical_speed is sent as
\* verticalSpeed, waypoints as customRoute.
Instructions(kwargs) ==
    LET key(k) == CASE k = "altitude" -> "altitude"
                    [] k = "speed" -> "speed"
                    [] k = "vertical_speed" -> "verticalSpeed"
                    [] k = "waypoints" -> "customRoute"
                    [] k = "heading" -> "heading"
        known == DOMAIN kwargs \cap {"altitude", "speed", "vertical_speed", "waypoints", "heading"}
    IN  [f \in {key(k) : k \in known} |-> kwargs[CHOOSE k \in known : key(k) = f]]

\* combo without its test of the empty instructions (lines 160-161): a variant the
\* code does not have.
combo_NoEmptyTest(callsign, kwargs, connected, emit_raises) ==
    [callsign |-> callsign,
     kwargs |-> kwargs,
     instructions |-> IF connected THEN Instructions(kwargs) ELSE EmptyDict,
     success |-> connected /\ ~emit_raises]

\* ATCCommandManager.combo: the call and what came of it.  emit_raises says
\* whether socketio.emit raises for this call.
combo(callsign, kwargs, connected, emit_raises) ==
    LET instructions == IF connected THEN Instructions(kwargs) ELSE EmptyDict
    IN  [callsign |-> callsign,
         kwargs |-> kwargs,
         instructions |-> instructions,
         success |-> connected /\ instructions # EmptyDict /\ ~emit_raises]

\* all_commands of one aircraft (lines 517-527).
AllCommands(callsign, path_commands, coordination_commands) ==
    LET path_part ==
            IF callsign \in DOMAIN path_commands /\ path_commands[callsign].type = "direct"
            THEN "waypoints" :> path_commands[callsign].waypoints
            ELSE EmptyDict
        coordination_part ==
            IF callsign \in DOMAIN coordination_commands
            THEN coordination_commands[callsign]
            ELSE EmptyDict
    IN  coordination_part @@ path_part

RECURSIVE _execute_commands(_, _, _, _, _)
_execute_commands(aircraft_list, path_commands, coordination_commands, connected, failing) ==
    IF aircraft_list = <<>> THEN <<>>
    ELSE LET callsign == Head(aircraft_list).callsign
             all_commands == AllCommands(callsign, path_commands, coordination_commands)
             rest == _execute_commands(Tail(aircraft_list), path_commands,
                                       coordination_commands, connected, failing)
         IN  IF all_commands # EmptyDict
             THEN <<combo(callsign, all_commands, connected, callsign \in failing)>> \o rest
             ELSE rest

----------------------------------------------------------------------------
(* History of emits *)

COMMAND_INTERVAL == 30

\* Seconds between two clock readings of the model: two to a cooldown.
TimeStep == COMMAND_INTERVAL \div 2

EmittedTo(log) == {log[i].callsign : i \in {j \in DOMAIN log : log[j].success}}

EmitTimes(log, t) == [c \in Callsigns |-> IF c \in EmittedTo(log) THEN t ELSE last_emit[c]]

EmitTimesBefore(log) ==
    [c \in Callsigns |-> IF c \in EmittedTo(log) THEN last_emit[c] ELSE prev_emit[c]]

----------------------------------------------------------------------------
(* ATC_11.py: the socket handlers *)

Init ==
    /\ NoDescentController
    /\ NoBackend91
    /\ malformed = {}
    /\ solution = <<>>
    /\ NoUnits
    /\ program = "ATC_11"
    /\ is_connected = FALSE
    /\ now = StartTime
    /\ snapshot = <<>>
    /\ outcome = "none"
    /\ schedule_result = <<>>
    /\ combo_log = <<>>
    /\ aircraft_states = EmptyDict
    /\ predicted = <<>>
    /\ conflicts = <<>>
    /\ last_emit = [c \in Callsigns |-> 0]
    /\ prev_emit = [c \in Callsigns |-> 0]

\* MultiAircraftCoordinator.process_update, steps 1 to 3: the arrivals, their
\* schedule, the path decisions and the speed/altitude commands (lines 271-285).
CoordinationPlan(aircraft_list) ==
    The({ IF arrival_aircraft = <<>>
          THEN [schedule |-> <<>>, path_commands |-> EmptyDict,
                coordination_commands |-> EmptyDict]
          ELSE The({ [schedule |-> schedule,
                      path_commands |-> _optimize_paths(schedule),
                      coordination_commands |-> _coordinate_speed_altitude(schedule)] :
                     schedule \in {_schedule_mp_sequence(arrival_aircraft)} }) :
          arrival_aircraft \in {_extract_arrival_aircraft(aircraft_list)} })

\* MultiAircraftCoordinator.process_update, step 4 (line 288); with no arrival
\* aircraft the schedule is empty and nothing is called.
ExecutePlan(plan, connected, failing) ==
    _execute_commands(SchedulingOrder(plan.schedule), plan.path_commands,
                      plan.coordination_commands, connected, failing)

\* The calls for which socketio.emit may raise in one tick: none, or one aircraft's.
\* socketio.emit is reached only while a frontend is connected.
EmitFailures(plan, connected) ==
    IF connected
    THEN {{}} \cup {{c} : c \in DOMAIN plan.path_commands \cup DOMAIN plan.coordination_commands}
    ELSE {{}}

\* @socketio.on('aircraft_data'): data_processor.process_data, then
\* flight_optimizer.process_update.
handle_aircraft_data ==
    /\ program = "ATC_11"
    /\ \E data \in NextSnapshots(CallsignPool, snapshot, Profiles) :
           \E plan \in {CoordinationPlan(data)} :
               \E failing \in EmitFailures(plan, is_connected) :
                   /\ snapshot' = data
                   /\ outcome' = "returned"
                   /\ schedule_result' = plan.schedule
                   /\ combo_log' = ExecutePlan(plan, is_connected, failing)
    /\ UNCHANGED <<unitVars, program, is_connected, now, optimizerVars, conflictVars, historyVars>>

\* The same handler with the emits entered in the history, over the telemetry
\* of ClockProfiles.
handle_aircraft_data_timed ==
    /\ program = "ATC_11"
    /\ \E data \in NextSnapshots(ClockPool, snapshot, ClockProfiles) :
           \E plan \in {CoordinationPlan(data)} :
               \E failing \in EmitFailures(plan, is_connected) :
                   \E log \in {ExecutePlan(plan, is_connected, failing)} :
                       /\ snapshot' = data
                       /\ outcome' = "returned"
                       /\ schedule_result' = plan.schedule
                       /\ combo_log' = log
                       /\ last_emit' = EmitTimes(log, now)
                       /\ prev_emit' = EmitTimesBefore(log)
    /\ UNCHANGED <<unitVars, program, is_connected, now, optimizerVars, conflictVars>>

\* @socketio.on('connect')
handle_connect ==
    /\ is_connected' = TRUE
    /\ UNCHANGED <<unitVars, program, now, snapshot, outcome, schedule_result, combo_log,
                   optimizerVars, conflictVars, historyVars>>

\* @socketio.on('disconnect')
handle_disconnect ==
    /\ is_connected' = FALSE
    /\ UNCHANGED <<unitVars, program, now, snapshot, outcome, schedule_result, combo_log,
                   optimizerVars, conflictVars, historyVars>>

\* The wall clock moves on between two events.
Advance ==
    /\ now + TimeStep <= StartTime + MaxClockSteps * TimeStep
    /\ now' = now + TimeStep
    /\ UNCHANGED <<unitVars, program, is_connected, snapshot, outcome, schedule_result, combo_log,
                   optimizerVars, conflictVars, historyVars>>

Next == handle_aircraft_data \/ handle_connect \/ handle_disconnect

Spec == Init /\ [][Next]_vars

\* ATC_11.py with the wall clock running and the emits recorded.
NextClock == handle_aircraft_data_timed \/ handle_connect \/ handle_disconnect \/ Advance

SpecClock == Init /\ [][NextClock]_vars

----------------------------------------------------------------------------
(* ATC_11.py: telemetry with 'N/A' in it *)

\* Which records of one event carry 'N/A' where a number is expected: none, or
\* one aircraft's.  FlightDataProcessor.process_data passes the value on as it is
\* (lines 195-197, 202, 205; 'N/A' is its own default for a missing position).
MalformedSets(data) == {{}} \cup {{data[i].callsign} : i \in DOMAIN data}

\* _extract_arrival_aircraft (lines 290-297) on such a list: float('N/A') or
\* int('N/A') in _analyze_aircraft_state (lines 305-309) raises ValueError for the
\* first arrival aircraft that carries it; nothing catches it.
ExtractionRaises(data, bad) ==
    \E i \in DOMAIN data : _is_arrival_aircraft(data[i]) /\ data[i].callsign \in bad

\* @socketio.on('aircraft_data') (lines 616-620) for such an event.  The records
\* that are no arrival aircraft are never converted.
handle_aircraft_data_raw ==
    /\ program = "ATC_11"
    /\ \E data \in NextSnapshots(ClockPool, snapshot, Profiles) :
           \E bad \in MalformedSets(data) :
               /\ snapshot' = data
               /\ malformed' = bad
               /\ IF ExtractionRaises(data, bad)
                  THEN /\ outcome' = "ValueError"
                       /\ schedule_result' = <<>>
                       /\ combo_log' = <<>>
                  ELSE \E plan \in {CoordinationPlan(data)} :
                           \E failing \in EmitFailures(plan, is_connected) :
                               /\ outcome' = "returned"
                               /\ schedule_result' = plan.schedule
                               /\ combo_log' = ExecutePlan(plan, is_connected, failing)
    /\ UNCHANGED <<moreVars, descentVars, solution, backendVars, program, is_connected, now,
                   optimizerVars, conflictVars, historyVars>>

NextRaw == handle_aircraft_data_raw \/ handle_connect \/ handle_disconnect

SpecRaw == Init /\ [][NextRaw]_vars

----------------------------------------------------------------------------
(* ATC_7.py: FlightOptimizer *)

MAX_DESCENT_RATE == 2000
SPEED_TRANSITION_ALT == 10000

\* The telemetry of the optimizer runs: an arrival by its route name that is
\* given an altitude, a vertical speed and a speed, an arrival by its flight
\* type that needs no command, and a departure.
OptimizerProfiles == {p \in Profiles : p.distance_to_mp \in {5, 8, 10}}

\* _analyze_aircraft: the state of one aircraft; last_command_time is carried
\* over from the entry aircraft_states holds for the callsign, 0 without one.
_analyze_aircraft(aircraft, states) ==
    [callsign |-> aircraft.callsign,
     route_name |-> aircraft.route_name,
     altitude |-> aircraft.altitude,
     ias |-> aircraft.ias,
     ground_speed |-> aircraft.ground_speed,
     distance_to_mp |-> aircraft.distance_to_mp,
     last_command_time |->
         IF aircraft.callsign \in DOMAIN states
         THEN states[aircraft.callsign].last_command_time
         ELSE 0]

\* The loop of FlightOptimizer.process_update (lines 286-295): every arrival
\* aircraft is analysed, entered in aircraft_states and appended to
\* arrival_aircraft; no entry is ever removed.
RECURSIVE TrackArrivals(_, _, _)
TrackArrivals(aircraft_list, states, arrival_aircraft) ==
    IF aircraft_list = <<>>
    THEN [states |-> states, arrival_aircraft |-> arrival_aircraft]
    ELSE LET aircraft == Head(aircraft_list)
             state == _analyze_aircraft(aircraft, states)
         IN  IF aircraft.flight_type = "ARRIVAL" \/ HasArrivalInName(aircraft.route_name)
             THEN TrackArrivals(Tail(aircraft_list),
                                (aircraft.callsign :> state) @@ states,
                                Append(arrival_aircraft, state))
             ELSE TrackArrivals(Tail(aircraft_list), states, arrival_aircraft)

\* sorted(arrival_aircraft, key=lambda x: x['distance_to_mp'] / x['ground_speed']):
\* stable, the keys compared as fractions.
SortByTimeToMP(arrival_aircraft) ==
    LET n == Len(arrival_aircraft)
        Key(i, j) == arrival_aircraft[i].distance_to_mp * arrival_aircraft[j].ground_speed
        Before(j, i) == Key(j, i) < Key(i, j) \/ (Key(j, i) = Key(i, j) /\ j < i)
        Rank(i) == Cardinality({j \in 1..n : Before(j, i)}) + 1
    IN  [k \in 1..n |-> arrival_aircraft[CHOOSE i \in 1..n : Rank(i) = k]]

\* Mutant: the cooldown test never holds a command back.
InCooldown_Never(state, t) == FALSE

\* The cooldown test of _generate_commands (lines 395-397).
InCooldown(state, t) == t - state.last_command_time < 30

\* Mutant: required_vs is not capped by MAX_DESCENT_RATE.
AltitudeManagement_Uncapped(state) ==
    LET target_alt == IF state.distance_to_mp > 50 THEN 15000
                      ELSE IF state.distance_to_mp > 30 THEN 10000
                      ELSE IF state.distance_to_mp > 15 THEN 6000
                      ELSE FINAL_ALTITUDE
        numerator == (state.altitude - target_alt) * state.ground_speed
        denominator == state.distance_to_mp * 60
    IN  IF state.distance_to_mp < 80 /\ state.altitude > FINAL_ALTITUDE
           /\ state.altitude > target_alt + 500
        THEN ("altitude" :> target_alt)
                 @@ (IF state.distance_to_mp > 0 /\ numerator > 500 * denominator
                     THEN "vertical_speed" :> 0 - (numerator \div denominator)
                     ELSE EmptyDict)
        ELSE EmptyDict

\* Part 1 of _generate_commands, the descent profile by distance (lines 401-420).
\* required_vs is (current_alt - target_alt) / time_to_mp with
\* time_to_mp = distance_to_mp / ground_speed * 60, held here as a fraction.
AltitudeManagement(state) ==
    LET target_alt == IF state.distance_to_mp > 50 THEN 15000
                      ELSE IF state.distance_to_mp > 30 THEN 10000
                      ELSE IF state.distance_to_mp > 15 THEN 6000
                      ELSE FINAL_ALTITUDE
        numerator == (state.altitude - target_alt) * state.ground_speed
        denominator == state.distance_to_mp * 60
        required_vs == IF numerator >= MAX_DESCENT_RATE * denominator
                       THEN MAX_DESCENT_RATE
                       ELSE numerator \div denominator
    IN  IF state.distance_to_mp < 80 /\ state.altitude > FINAL_ALTITUDE
           /\ state.altitude > target_alt + 500
        THEN ("altitude" :> target_alt)
                 @@ (IF state.distance_to_mp > 0 /\ numerator > 500 * denominator
                     THEN "vertical_speed" :> 0 - required_vs
                     ELSE EmptyDict)
        ELSE EmptyDict

\* Part 2 of _generate_commands, the speed by altitude and distance (lines 422-436).
SpeedManagement(state) ==
    LET target_speed == IF state.altitude > SPEED_TRANSITION_ALT THEN 250
                        ELSE IF state.distance_to_mp > 20 THEN 250
                        ELSE IF state.distance_to_mp > 10 THEN 220
                        ELSE FINAL_SPEED
        difference == state.ias - target_speed
    IN  IF difference > 10 \/ difference < -10
        THEN "speed" :> target_speed
        ELSE EmptyDict

\* `commands` of _generate_commands when the cooldown lets it through.
GeneratedCommands(state) == AltitudeManagement(state) @@ SpeedManagement(state)

\* The loop of _optimize_and_command over the sorted aircraft, each step one
\* call of _generate_commands: past the cooldown and with commands, combo is
\* called, and on success last_command_time of the entry is set to time.time().
RECURSIVE _generate_commands(_, _, _, _, _, _)
_generate_commands(sorted_aircraft, states, log, t, connected, failing) ==
    IF sorted_aircraft = <<>>
    THEN [states |-> states, log |-> log]
    ELSE LET state == Head(sorted_aircraft)
             commands == GeneratedCommands(state)
             call == combo(state.callsign, commands, connected, state.callsign \in failing)
         IN  IF InCooldown(state, t) \/ commands = EmptyDict
             THEN _generate_commands(Tail(sorted_aircraft), states, log, t, connected, failing)
             ELSE _generate_commands(
                      Tail(sorted_aircraft),
                      IF call.success
                      THEN [states EXCEPT ![state.callsign].last_command_time = t]
                      ELSE states,
                      Append(log, call), t, connected, failing)

_optimize_and_command(arrival_aircraft, states, t, connected, failing) ==
    _generate_commands(SortByTimeToMP(arrival_aircraft), states, <<>>, t, connected, failing)

\* The calls for which socketio.emit may raise in one tick: none, or one aircraft's.
EmitFailuresOf(arrival_aircraft, connected) ==
    IF connected
    THEN {{}} \cup {{arrival_aircraft[i].callsign} : i \in DOMAIN arrival_aircraft}
    ELSE {{}}

\* @socketio.on('aircraft_data') of ATC_7.py: data_processor.process_data, then
\* FlightOptimizer.process_update (lines 274-303).
handle_aircraft_data_7 ==
    /\ program = "ATC_7"
    /\ \E data \in NextSnapshots(ClockPool, snapshot, OptimizerProfiles) :
           \E tracked \in {TrackArrivals(data, aircraft_states, <<>>)} :
               \E failing \in EmitFailuresOf(tracked.arrival_aircraft, is_connected) :
                   \E done \in {_optimize_and_command(tracked.arrival_aircraft, tracked.states,
                                                      now, is_connected, failing)} :
                       /\ snapshot' = data
                       /\ outcome' = "returned"
                       /\ aircraft_states' = done.states
                       /\ combo_log' = done.log
                       /\ last_emit' = EmitTimes(done.log, now)
                       /\ prev_emit' = EmitTimesBefore(done.log)
    /\ UNCHANGED <<unitVars, program, is_connected, now, schedule_result, conflictVars>>

----------------------------------------------------------------------------
(* ATC_9.py: AdvancedFlightOptimizer *)

MIN_HORIZONTAL_SEP == 3
MIN_VERTICAL_SEP == 1000
PREDICTION_TIME == 600
TIME_STEP == 30

\* _predict_4d_trajectory: the loop runs int(PREDICTION_TIME / TIME_STEP) times,
\* and line 422 of its body is a bare name that nothing defines: the first
\* iteration raises NameError before any point is appended.
_predict_4d_trajectory(aircraft) ==
    IF PREDICTION_TIME \div TIME_STEP > 0
    THEN [raised |-> "NameError", trajectory |-> <<>>]
    ELSE [raised |-> "none", trajectory |-> <<>>]

\* _analyze_single_aircraft: an exception of _predict_4d_trajectory goes through
\* it; otherwise the state, last_command_time carried over as in ATC_7.py.
_analyze_single_aircraft(aircraft, states) ==
    LET prediction == _predict_4d_trajectory(aircraft)
    IN  [raised |-> prediction.raised,
         state |-> [callsign |-> aircraft.callsign,
                    route_name |-> aircraft.route_name,
                    altitude |-> aircraft.altitude,
                    ias |-> aircraft.ias,
                    ground_speed |-> aircraft.ground_speed,
                    distance_to_mp |-> aircraft.distance_to_mp,
                    trajectory |-> prediction.trajectory,
                    last_command_time |->
                        IF aircraft.callsign \in DOMAIN states
                        THEN states[aircraft.callsign].last_command_time
                        ELSE 0]]

\* _analyze_all_aircraft: as the loop of ATC_7.py, and as there no entry of
\* aircraft_states is ever removed; an exception ends it where it is.
RECURSIVE _analyze_all_aircraft(_, _, _)
_analyze_all_aircraft(aircraft_list, states, arrival_aircraft) ==
    IF aircraft_list = <<>>
    THEN [raised |-> "none", states |-> states, arrival_aircraft |-> arrival_aircraft]
    ELSE IF ~_is_arrival_aircraft(Head(aircraft_list))
         THEN _analyze_all_aircraft(Tail(aircraft_list), states, arrival_aircraft)
         ELSE LET analysis == _analyze_single_aircraft(Head(aircraft_list), states)
              IN  IF analysis.raised # "none"
                  THEN [raised |-> analysis.raised, states |-> states,
                        arrival_aircraft |-> arrival_aircraft]
                  ELSE _analyze_all_aircraft(
                           Tail(aircraft_list),
                           (analysis.state.callsign :> analysis.state) @@ states,
                           Append(arrival_aircraft, analysis.state))

\* _calculate_target_speed of ATC_9.py (lines 656-680), with the conflict test
\* (lines 662-665) as its second argument.
_calculate_target_speed(aircraft, involved_in_conflict) ==
    LET base_speed ==
            IF aircraft.altitude > 10000 THEN 250
            ELSE IF aircraft.distance_to_mp > 20 THEN 250
            ELSE IF aircraft.distance_to_mp > 10 THEN 220
            ELSE FINAL_SPEED
    IN  IF involved_in_conflict THEN Max(base_speed - 20, FINAL_SPEED) ELSE base_speed

\* calculate_distance of two trajectory points.  A point is held by its position
\* in nm along one meridian, where the haversine distance of two points is the
\* difference of their positions.
calculate_distance(point1, point2) ==
    IF point1.position >= point2.position
    THEN point1.position - point2.position
    ELSE point2.position - point1.position

\* The loop of _check_pair_conflict (lines 546-559) from index i on: `closest`
\* is empty while min_distance is float('inf'), and holds min_distance,
\* conflict_time and min_alt_sep afterwards.
RECURSIVE ClosestApproach(_, _, _, _)
ClosestApproach(traj1, traj2, i, closest) ==
    IF i > Min(Len(traj1), Len(traj2))
    THEN closest
    ELSE LET horizontal_dist == calculate_distance(traj1[i], traj2[i])
             difference == traj1[i].altitude - traj2[i].altitude
             vertical_sep == IF difference >= 0 THEN difference ELSE 0 - difference
         IN  ClosestApproach(
                 traj1, traj2, i + 1,
                 IF closest = <<>> \/ horizontal_dist < closest[1].min_distance
                 THEN <<[min_distance |-> horizontal_dist,
                         conflict_time |-> (traj1[i].time * MinuteScale) \div 60,
                         min_alt_sep |-> vertical_sep]>>
                 ELSE closest)

\* Mutant: the test of the vertical separation is left out, every conflict is
\* reported as 'horizontal'.
_check_pair_conflict_NoVertical(aircraft1, aircraft2) ==
    LET closest == ClosestApproach(aircraft1.trajectory, aircraft2.trajectory, 1, <<>>)
    IN  IF closest # <<>> /\ closest[1].min_distance < MIN_HORIZONTAL_SEP
        THEN <<[aircraft1 |-> aircraft1.callsign, aircraft2 |-> aircraft2.callsign,
                time |-> closest[1].conflict_time, distance |-> closest[1].min_distance,
                altitude_separation |-> closest[1].min_alt_sep,
                conflict_type |-> "horizontal"]>>
        ELSE <<>>

\* Mutant: a conflict is reported only when both separations are lost.
_check_pair_conflict_BothOnly(aircraft1, aircraft2) ==
    LET closest == ClosestApproach(aircraft1.trajectory, aircraft2.trajectory, 1, <<>>)
    IN  IF closest # <<>> /\ closest[1].min_distance < MIN_HORIZONTAL_SEP
                          /\ closest[1].min_alt_sep < MIN_VERTICAL_SEP
        THEN <<[aircraft1 |-> aircraft1.callsign, aircraft2 |-> aircraft2.callsign,
                time |-> closest[1].conflict_time, distance |-> closest[1].min_distance,
                altitude_separation |-> closest[1].min_alt_sep,
                conflict_type |-> "both"]>>
        ELSE <<>>

\* _check_pair_conflict: the ConflictInfo of the pair as a one-element sequence,
\* None as the empty one.
_check_pair_conflict(aircraft1, aircraft2) ==
    LET closest == ClosestApproach(aircraft1.trajectory, aircraft2.trajectory, 1, <<>>)
        horizontal_conflict == closest # <<>> /\ closest[1].min_distance < MIN_HORIZONTAL_SEP
        vertical_conflict == closest # <<>> /\ closest[1].min_alt_sep < MIN_VERTICAL_SEP
        ConflictInfo(conflict_type) ==
            [aircraft1 |-> aircraft1.callsign, aircraft2 |-> aircraft2.callsign,
             time |-> closest[1].conflict_time, distance |-> closest[1].min_distance,
             altitude_separation |-> closest[1].min_alt_sep,
             conflict_type |-> conflict_type]
    IN  IF horizontal_conflict /\ vertical_conflict
        THEN <<ConflictInfo("both")>>
        ELSE IF horizontal_conflict
             THEN <<ConflictInfo("horizontal")>>
             ELSE <<>>

\* The two loops of _detect_conflicts from the pair (i, j) on.
RECURSIVE DetectFrom(_, _, _)
DetectFrom(aircraft_list, i, j) ==
    IF i > Len(aircraft_list) THEN <<>>
    ELSE IF j > Len(aircraft_list) THEN DetectFrom(aircraft_list, i + 1, i + 2)
         ELSE _check_pair_conflict(aircraft_list[i], aircraft_list[j])
                  \o DetectFrom(aircraft_list, i, j + 1)

_detect_conflicts(aircraft_list) == DetectFrom(aircraft_list, 1, 2)

\* @socketio.on('aircraft_data') of ATC_9.py: data_processor.process_data, then
\* AdvancedFlightOptimizer.process_update (lines 306-326).  Lines 319-326 run
\* only after an arrival aircraft was analysed without an exception.
handle_aircraft_data_9 ==
    /\ program = "ATC_9"
    /\ \E data \in NextSnapshots(ClockPool, snapshot, OptimizerProfiles) :
           \E analysis \in {_analyze_all_aircraft(data, aircraft_states, <<>>)} :
               /\ snapshot' = data
               /\ aircraft_states' = analysis.states
               /\ combo_log' = <<>>
               /\ outcome' = CASE analysis.raised # "none" -> analysis.raised
                               [] analysis.raised = "none" /\ analysis.arrival_aircraft = <<>>
                                      -> "returned"
    /\ UNCHANGED <<unitVars, program, is_connected, now, schedule_result, conflictVars, historyVars>>

----------------------------------------------------------------------------
(* ATC_7.py and ATC_9.py behind their socket handlers, the wall clock running *)

InitOptimizer ==
    /\ NoDescentController
    /\ NoBackend91
    /\ malformed = {}
    /\ solution = <<>>
    /\ NoUnits
    /\ program \in {"ATC_7", "ATC_9"}
    /\ is_connected = FALSE
    /\ now = StartTime
    /\ snapshot = <<>>
    /\ outcome = "none"
    /\ schedule_result = <<>>
    /\ combo_log = <<>>
    /\ aircraft_states = EmptyDict
    /\ predicted = <<>>
    /\ conflicts = <<>>
    /\ last_emit = [c \in Callsigns |-> 0]
    /\ prev_emit = [c \in Callsigns |-> 0]

NextOptimizer ==
    \/ handle_aircraft_data_7
    \/ handle_aircraft_data_9
    \/ handle_connect
    \/ handle_disconnect
    \/ Advance

SpecOptimizer == InitOptimizer /\ [][NextOptimizer]_vars

----------------------------------------------------------------------------
(* ATC_9.py: _detect_conflicts over predicted trajectories *)

MaxTrajectoryLen == 2   \* the longest trajectory given to the conflict detector

\* The trajectories _predict_4d_trajectory is written to build: point i at time
\* i * TIME_STEP, every point at the altitude the aircraft has now (line 441).
Trajectories(positions, altitude) ==
    UNION { { [i \in 1..n |-> [time |-> (i - 1) * TIME_STEP,
                               position |-> f[i],
                               altitude |-> altitude]] : f \in [1..n -> positions] } :
            n \in 0..MaxTrajectoryLen }

PredictedAircraft(callsign, positions, altitudes) ==
    UNION { { [callsign |-> callsign, altitude |-> a, trajectory |-> t] :
                  t \in Trajectories(positions, a) } : a \in altitudes }

\* Two or three arrival aircraft: the first stays where it is, the second is
\* anywhere within 3 nm and at 400, 500 or 1000 ft from it, the third, if there
\* is one, stays 2 nm from the first at its altitude.
PredictedLists ==
    LET first == PredictedAircraft(CallsignPool[1], {0}, {5000})
        second == PredictedAircraft(CallsignPool[2], 0..3, {5400, 5500, 6000})
        third == { a \in PredictedAircraft(CallsignPool[3], {2}, {5000}) :
                       Len(a.trajectory) = MaxTrajectoryLen }
    IN  {<<a, b>> : a \in first, b \in second}
            \cup {<<a, b, c>> : a \in first, b \in second, c \in third}

InitConflict ==
    /\ NoDescentController
    /\ NoBackend91
    /\ malformed = {}
    /\ solution = <<>>
    /\ NoUnits
    /\ program = "ATC_9"
    /\ is_connected = FALSE
    /\ now = StartTime
    /\ snapshot = <<>>
    /\ outcome = "none"
    /\ schedule_result = <<>>
    /\ combo_log = <<>>
    /\ aircraft_states = EmptyDict
    /\ predicted \in PredictedLists
    /\ conflicts = <<>>
    /\ last_emit = [c \in Callsigns |-> 0]
    /\ prev_emit = [c \in Callsigns |-> 0]

\* conflicts = self._detect_conflicts(arrival_aircraft) (line 321).
detect_conflicts ==
    /\ outcome = "none"
    /\ conflicts' = _detect_conflicts(predicted)
    /\ outcome' = "returned"
    /\ UNCHANGED <<unitVars, program, is_connected, now, snapshot, schedule_result, combo_log,
                   aircraft_states, predicted, historyVars>>

NextConflict == detect_conflicts

SpecConflict == InitConflict /\ [][NextConflict]_vars

----------------------------------------------------------------------------
(* ATC_9.py: _multi_aircraft_optimization and _execute_commands, applied to the
   aircraft list _analyze_all_aircraft is written to return; and the tick of
   ATC_11.py, for the delivery of their commands *)

\* The commands lines 622-640 of _generate_optimization_commands leave for one
\* aircraft past its cooldown: none, a speed, or an altitude with a vertical speed.
PendingCommands ==
    {EmptyDict, "speed" :> FINAL_SPEED,
     ("altitude" :> FINAL_ALTITUDE) @@ ("vertical_speed" :> (0 - 1500))}

\* _generate_optimization_commands (lines 609-640): the cooldown test of lines
\* 617-620 first, on the last_command_time the analysis copied from
\* aircraft_states (line 397).
_generate_optimization_commands(state, pending, t) ==
    IF t - state.last_command_time < COMMAND_INTERVAL THEN EmptyDict ELSE pending

\* _multi_aircraft_optimization (lines 587-606): one entry per aircraft, in the
\* order of sorted_aircraft, here the order of `callsigns`.
_multi_aircraft_optimization(callsigns, states, pending, t) ==
    [i \in DOMAIN callsigns |->
        [callsign |-> callsigns[i],
         pending |-> pending[callsigns[i]],
         commands |-> _generate_optimization_commands(states[callsigns[i]],
                                                      pending[callsigns[i]], t)]]

\* last_command_time written on every call, delivered or not: a variant the code
\* does not have.
LastCommandTime_Always(state, success, t) == t

\* last_command_time of one aircraft after its combo call (lines 725-728).
LastCommandTime(state, success, t) ==
    IF success THEN t ELSE state.last_command_time

\* _execute_commands of ATC_9.py (lines 720-731): `commands and combo(...)` calls
\* combo only for a non-empty dict; the loop goes on whatever combo returns.
RECURSIVE _execute_commands_9(_, _, _, _, _, _)
_execute_commands_9(entries, states, log, t, connected, failing) ==
    IF entries = <<>> THEN [states |-> states, log |-> log]
    ELSE LET callsign == Head(entries).callsign
             commands == Head(entries).commands
         IN  IF commands = EmptyDict
             THEN _execute_commands_9(Tail(entries), states, log, t, connected, failing)
             ELSE LET call == combo(callsign, commands, connected, callsign \in failing)
                      after ==
                          IF callsign \in DOMAIN states
                          THEN [states EXCEPT ![callsign].last_command_time =
                                    LastCommandTime(states[callsign], call.success, t)]
                          ELSE states
                  IN  _execute_commands_9(Tail(entries), after, Append(log, call), t,
                                          connected, failing)

\* The arrival aircraft of one tick, in the order of their priority: some or all
\* of the tracked callsigns.
ArrivalOrders ==
    LET a == ClockPool[1]
        b == ClockPool[2]
    IN  {<<a>>, <<b>>, <<a, b>>, <<b, a>>}

\* aircraft_states after _analyze_all_aircraft has entered the aircraft once
\* (lines 330-333, 397): no command sent yet.
TrackedStates ==
    [c \in {ClockPool[i] : i \in DOMAIN ClockPool} |->
        [callsign |-> c, last_command_time |-> 0]]

\* process_update of ATC_9.py from line 322 on: _multi_aircraft_optimization,
\* then _execute_commands.
optimize_and_execute_9 ==
    /\ program = "ATC_9"
    /\ \E callsigns \in ArrivalOrders :
           \E pending \in [{callsigns[i] : i \in DOMAIN callsigns} -> PendingCommands] :
               \E entries \in {_multi_aircraft_optimization(callsigns, aircraft_states,
                                                            pending, now)} :
                   \E failing \in IF is_connected
                                   THEN {{}} \cup {{callsigns[i]} : i \in DOMAIN callsigns}
                                   ELSE {{}} :
                       \E done \in {_execute_commands_9(entries, aircraft_states, <<>>, now,
                                                        is_connected, failing)} :
                           /\ solution' = entries
                           /\ aircraft_states' = done.states
                           /\ combo_log' = done.log
                           /\ outcome' = "returned"
                           /\ last_emit' = EmitTimes(done.log, now)
                           /\ prev_emit' = EmitTimesBefore(done.log)
    /\ UNCHANGED <<moreVars, descentVars, malformed, backendVars, program, is_connected, now, snapshot,
                   schedule_result, conflictVars>>

InitExecute ==
    /\ NoDescentController
    /\ NoBackend91
    /\ malformed = {}
    /\ solution = <<>>
    /\ NoUnits
    /\ program \in {"ATC_11", "ATC_9"}
    /\ is_connected = FALSE
    /\ now = StartTime
    /\ snapshot = <<>>
    /\ outcome = "none"
    /\ schedule_result = <<>>
    /\ combo_log = <<>>
    /\ aircraft_states = IF program = "ATC_9" THEN TrackedStates ELSE EmptyDict
    /\ predicted = <<>>
    /\ conflicts = <<>>
    /\ last_emit = [c \in Callsigns |-> 0]
    /\ prev_emit = [c \in Callsigns |-> 0]

NextExecute ==
    \/ handle_aircraft_data_timed
    \/ optimize_and_execute_9
    \/ handle_connect
    \/ handle_disconnect
    \/ Advance

SpecExecute == InitExecute /\ [][NextExecute]_vars

----------------------------------------------------------------------------
(* ATC_backend_91.py: the automatic commands to CSN202 *)

csn202_target_distance == 70

\* How many instructions the history of one connection holds before the model
\* lets no further invocation start.
MaxAutoEmits == 4

\* The 'aircraft' array of one event, as far as the automatic commands read it:
\* empty, or CSN202 with its earliestDistanceToMP and its groundSpeed (0: absent).
AircraftData ==
    {<<>>} \cup
    {<<[callsign |-> "CSN202", earliestDistanceToMP |-> d, groundSpeed |-> g]>> :
        d \in {72, 70, 66, 65}, g \in {0, 280}}

\* calculate_descent_rate (lines 115-123).
calculate_descent_rate(ground_speed) ==
    IF ground_speed > 0 THEN ground_speed * 5 ELSE 1500

\* ground_speed as lines 203-211 and 614-622 read it: 300 unless groundSpeed is
\* there.
GroundSpeedOf(aircraft) == IF aircraft.groundSpeed # 0 THEN aircraft.groundSpeed ELSE 300

\* The two commands of send_csn202_auto_descent_and_route (lines 137-154).
descent_command(ground_speed) ==
    [callsign |-> "CSN202",
     instructions |-> ("altitude" :> "FL020") @@
                      ("verticalSpeed" :> (0 - calculate_descent_rate(ground_speed)))]

route_command ==
    [callsign |-> "CSN202", instructions |-> "customRoute" :> <<"IR15", "IR5", "MP">>]

\* send_csn202_auto_descent_and_route up to its time.sleep(0.5) (lines 125-158), in
\* thread t: the test of the flag, then the first emit, which may raise into the
\* except of line 171.  The flag is not written here.
SendStart(t, ground_speed, raises) ==
    IF ~is_connected \/ csn202_auto_commands_sent \/ raises
    THEN UNCHANGED <<invocation, auto_emits>>
    ELSE /\ auto_emits' = Append(auto_emits, descent_command(ground_speed))
         /\ invocation' = [invocation EXCEPT ![t] = "sleeping"]

\* The test of check_csn202_auto_commands (lines 175-201) on one aircraft.
Triggers(aircraft) ==
    /\ aircraft.callsign = "CSN202"
    /\ ~csn202_auto_commands_sent
    /\ aircraft.earliestDistanceToMP <= csn202_target_distance
    /\ aircraft.earliestDistanceToMP > csn202_target_distance - 5

\* @socketio.on('connect') (lines 27-33).
handle_connect_91 ==
    /\ is_connected' = TRUE
    /\ csn202_auto_commands_sent' = FALSE
    /\ auto_emits' = <<>>
    /\ UNCHANGED <<moreVars, descentVars, malformed, solution, aircraft_data, invocation, program, now,
                   snapshot, outcome, schedule_result, combo_log, optimizerVars,
                   conflictVars, historyVars>>

\* @socketio.on('disconnect') (lines 39-43).
handle_disconnect_91 ==
    /\ is_connected' = FALSE
    /\ UNCHANGED <<unitVars, program, now, snapshot, outcome, schedule_result, combo_log,
                   optimizerVars, conflictVars, historyVars>>

\* @socketio.on('aircraft_data') (lines 225-277), up to the sleep of the invocation
\* it may start; what follows line 277 only prints.
handle_aircraft_data_91 ==
    /\ invocation["aircraft_data"] = "idle"
    /\ Len(auto_emits) < MaxAutoEmits
    /\ \E data \in AircraftData, raises \in BOOLEAN :
           /\ aircraft_data' = data
           /\ IF data # <<>> /\ Triggers(data[1])
              THEN SendStart("aircraft_data", GroundSpeedOf(data[1]), raises)
              ELSE UNCHANGED <<invocation, auto_emits>>
    /\ outcome' = "returned"
    /\ UNCHANGED <<moreVars, descentVars, malformed, solution, csn202_auto_commands_sent, program,
                   is_connected, now, snapshot, schedule_result, combo_log,
                   optimizerVars, conflictVars, historyVars>>

\* GET /trigger_auto_commands (lines 608-627), up to the sleep of the invocation
\* it may start.
manual_trigger_auto_commands ==
    /\ invocation["trigger_auto_commands"] = "idle"
    /\ Len(auto_emits) < MaxAutoEmits
    /\ \E raises \in BOOLEAN :
           IF aircraft_data # <<>> /\ aircraft_data[1].callsign = "CSN202"
           THEN SendStart("trigger_auto_commands", GroundSpeedOf(aircraft_data[1]), raises)
           ELSE UNCHANGED <<invocation, auto_emits>>
    /\ outcome' = "returned"
    /\ UNCHANGED <<moreVars, descentVars, malformed, solution, csn202_auto_commands_sent,
                   aircraft_data, program, is_connected, now, snapshot, schedule_result,
                   combo_log, optimizerVars, conflictVars, historyVars>>

\* send_csn202_auto_descent_and_route after its time.sleep(0.5) (lines 159-173), in
\* thread t: the second emit, and only then the flag.
send_csn202_auto_descent_and_route(t) ==
    /\ invocation[t] = "sleeping"
    /\ invocation' = [invocation EXCEPT ![t] = "idle"]
    /\ \E raises \in BOOLEAN :
           IF raises
           THEN UNCHANGED <<auto_emits, csn202_auto_commands_sent>>
           ELSE /\ auto_emits' = Append(auto_emits, route_command)
                /\ csn202_auto_commands_sent' = TRUE
    /\ UNCHANGED <<moreVars, descentVars, malformed, solution, aircraft_data, program, is_connected,
                   now, snapshot, outcome, schedule_result, combo_log, optimizerVars,
                   conflictVars, historyVars>>

\* GET /reset_auto_commands (lines 561-566, 602-605).
manual_reset_auto_commands ==
    /\ csn202_auto_commands_sent' = FALSE
    /\ auto_emits' = <<>>
    /\ UNCHANGED <<moreVars, descentVars, malformed, solution, aircraft_data, invocation, program,
                   is_connected, now, snapshot, outcome, schedule_result, combo_log,
                   optimizerVars, conflictVars, historyVars>>

InitAuto ==
    /\ NoDescentController
    /\ NoBackend91
    /\ malformed = {}
    /\ solution = <<>>
    /\ NoUnits
    /\ program = "ATC_backend_91"
    /\ is_connected = FALSE
    /\ now = StartTime
    /\ snapshot = <<>>
    /\ outcome = "none"
    /\ schedule_result = <<>>
    /\ combo_log = <<>>
    /\ aircraft_states = EmptyDict
    /\ predicted = <<>>
    /\ conflicts = <<>>
    /\ last_emit = [c \in Callsigns |-> 0]
    /\ prev_emit = [c \in Callsigns |-> 0]

\* The server handles every socket event and every HTTP request in a thread of
\* its own (socketio.run, line 844): the steps of the two threads interleave.
NextAuto ==
    \/ handle_connect_91
    \/ handle_disconnect_91
    \/ handle_aircraft_data_91
    \/ manual_trigger_auto_commands
    \/ \E t \in Threads : send_csn202_auto_descent_and_route(t)
    \/ manual_reset_auto_commands

SpecAuto == InitAuto /\ [][NextAuto]_vars

----------------------------------------------------------------------------
(* descent_control.py: DescentController *)

\* FlightPhase (lines 7-14), by value, in the order of declaration.
FlightPhase ==
    <<"cruise", "initial_descent", "speed_reduction_250", "intermediate_descent",
      "final_approach_prep", "final_approach", "landing">>

\* self.key_points and self.safety_margins (lines 40-53).
faf_distance == 9
flap5_distance == 10
safety_margins == [above_20000 |-> 15, mid_altitude |-> 8, below_10000 |-> 3]

\* math.tan(math.radians(3)) * 6076 = 318.43 feet of height per nautical mile of
\* 3 degree glide path, held in 1/GlideScale feet (line 62).
GlideFeetPerNm == 31843
GlideScale == 100

\* margin_ratio > tenths / 10 (lines 72-74, 77-84), where
\*   required_distance = altitude_to_lose / tan(3 deg) / 6076
\*   margin_ratio = distance / required_distance if required_distance > 0 else 999
\* Both sides are multiplied by required_distance * GlideFeetPerNm * 10.
MarginRatioAbove(distance, altitude_to_lose, tenths) ==
    IF altitude_to_lose > 0
    THEN distance * GlideFeetPerNm * 10 > tenths * altitude_to_lose * GlideScale
    ELSE 9990 > tenths

\* get_optimal_descent_rate with margin_ratio taken on the distance left after the
\* safety margin: a variant the code does not have.
get_optimal_descent_rate_OnAvailable(fs) ==
    LET altitude_to_lose == fs.altitude - fs.target_altitude
        margin == IF fs.altitude > 20000 THEN safety_margins.above_20000
                  ELSE IF fs.altitude > 10000 THEN safety_margins.mid_altitude
                  ELSE safety_margins.below_10000
        distance == fs.distance_to_runway - margin
    IN  IF MarginRatioAbove(distance, altitude_to_lose, 15) THEN 500
        ELSE IF MarginRatioAbove(distance, altitude_to_lose, 12) THEN 1000
        ELSE IF MarginRatioAbove(distance, altitude_to_lose, 10) THEN 1500
        ELSE 2000

\* get_optimal_descent_rate (lines 65-87).
get_optimal_descent_rate(fs) ==
    LET ground_speed == fs.ground_speed
        distance == fs.distance_to_runway
        altitude_to_lose == fs.altitude - fs.target_altitude
    IN  IF MarginRatioAbove(distance, altitude_to_lose, 15)
        THEN IF ground_speed > 350 THEN 1000 ELSE 500
        ELSE IF MarginRatioAbove(distance, altitude_to_lose, 12) THEN 1000
        ELSE IF MarginRatioAbove(distance, altitude_to_lose, 10) THEN 1500
        ELSE 2000

\* get_descent_rate_by_ground_speed (lines 89-91): int(ground_speed / 2), the
\* ground speed not negative.
get_descent_rate_by_ground_speed(ground_speed) == ground_speed \div 2

\* update_flight_phase without the test of the current phase in its first rule:
\* a variant the code does not have.
update_flight_phase_NoCruiseTest(phase, fs) ==
    LET altitude == fs.altitude
        distance == fs.distance_to_runway
    IN  IF altitude > 15000 THEN "initial_descent"
        ELSE IF altitude > 10000 /\ altitude <= 15000 THEN "speed_reduction_250"
        ELSE IF altitude <= 10000 /\ distance > 15 THEN "intermediate_descent"
        ELSE IF distance <= 15 /\ distance > 10 THEN "final_approach_prep"
        ELSE IF distance <= 10 THEN "final_approach"
        ELSE phase

\* update_flight_phase without its first rule: above 15000 ft the phase is kept.
\* A variant the code does not have.
update_flight_phase_NoFirstRule(phase, fs) ==
    LET altitude == fs.altitude
        distance == fs.distance_to_runway
    IN  IF altitude > 10000 /\ altitude <= 15000 THEN "speed_reduction_250"
        ELSE IF altitude <= 10000 /\ distance > 15 THEN "intermediate_descent"
        ELSE IF distance <= 15 /\ distance > 10 THEN "final_approach_prep"
        ELSE IF distance <= 10 THEN "final_approach"
        ELSE phase

\* update_flight_phase (lines 100-117); phase is self.current_phase.
update_flight_phase(phase, fs) ==
    LET altitude == fs.altitude
        distance == fs.distance_to_runway
    IN  IF altitude > 15000 /\ phase = "cruise" THEN "initial_descent"
        ELSE IF altitude > 10000 /\ altitude <= 15000 THEN "speed_reduction_250"
        ELSE IF altitude <= 10000 /\ distance > 15 THEN "intermediate_descent"
        ELSE IF distance <= 15 /\ distance > 10 THEN "final_approach_prep"
        ELSE IF distance <= 10 THEN "final_approach"
        ELSE phase

\* get_safety_margin (lines 119-126).
get_safety_margin(altitude) ==
    IF altitude > 20000 THEN safety_margins.above_20000
    ELSE IF altitude > 10000 THEN safety_margins.mid_altitude
    ELSE safety_margins.below_10000

\* _get_target_speed (lines 168-175).
_get_target_speed(fs) ==
    IF fs.altitude > 10000 THEN Min(fs.ground_speed, 300)
    ELSE IF fs.distance_to_runway > 10 THEN 250
    ELSE 180

\* _get_flap_setting (lines 177-184): the test against 10 comes first.
_get_flap_setting(fs) ==
    IF fs.distance_to_runway <= 10 THEN 5
    ELSE IF fs.distance_to_runway <= 9 THEN 15
    ELSE 0

\* abs(standard_descent_rate - speed_based_descent_rate) (line 146).
RateDifference(fs) ==
    LET d == get_optimal_descent_rate(fs) - get_descent_rate_by_ground_speed(fs.ground_speed)
    IN  IF d < 0 THEN -d ELSE d

\* The dict calculate_descent_command returns (lines 133-166); phase is
\* self.current_phase after line 131.
DescentCommands(phase, fs) ==
    LET safety_margin == get_safety_margin(fs.altitude)
        available_distance == fs.distance_to_runway - safety_margin
        standard_descent_rate == get_optimal_descent_rate(fs)
        speed_based_descent_rate == get_descent_rate_by_ground_speed(fs.ground_speed)
        close == RateDifference(fs) < 200
    IN  [descent_rate |-> IF close THEN standard_descent_rate
                          ELSE speed_based_descent_rate,
         target_speed |-> _get_target_speed(fs),
         flap_setting |-> _get_flap_setting(fs),
         flight_phase |-> phase,
         method_used |-> IF close THEN "standard_90_percent"
                         ELSE "ground_speed_9_percent",
         safety_margin |-> safety_margin,
         available_distance |-> available_distance]

\* The FlightState values an evaluation is given: the fields the controller reads.
\* 27000 ft, 400 kt, 130 nm, target 900 ft is the state simulate_descent starts
\* from (lines 210-218).
DescentAltitudes == {900, 2000, 9000, 10000, 12000, 15000, 16000, 21000, 27000, 28000}
DescentDistances == {5, 8, 9, 10, 12, 15, 20, 40, 130}
DescentGroundSpeeds == {250, 400, 1600, 1700}
FlightStates ==
    [altitude : DescentAltitudes, ground_speed : DescentGroundSpeeds,
     distance_to_runway : DescentDistances, target_altitude : {900}]

\* controller = DescentController() (lines 30-55, 207); nothing evaluated yet.
InitDescent ==
    /\ program = "descent_control"
    /\ is_connected = FALSE
    /\ now = StartTime
    /\ snapshot = <<>>
    /\ outcome = "none"
    /\ schedule_result = <<>>
    /\ combo_log = <<>>
    /\ aircraft_states = EmptyDict
    /\ predicted = <<>>
    /\ conflicts = <<>>
    /\ last_emit = [c \in Callsigns |-> 0]
    /\ prev_emit = [c \in Callsigns |-> 0]
    /\ current_phase = "cruise"
    /\ flight_state = <<>>
    /\ descent_commands = <<>>
    /\ NoBackend91
    /\ malformed = {}
    /\ solution = <<>>
    /\ NoUnits

\* commands = controller.calculate_descent_command(flight_state) (lines 128-166).
calculate_descent_command ==
    \E fs \in FlightStates :
        /\ current_phase' = update_flight_phase(current_phase, fs)
        /\ flight_state' = fs
        /\ descent_commands' = DescentCommands(current_phase', fs)
        /\ outcome' = "returned"
        /\ UNCHANGED <<moreVars, program, is_connected, now, snapshot, schedule_result, combo_log,
                       optimizerVars, conflictVars, historyVars, malformed, solution,
                       backendVars>>

NextDescent == calculate_descent_command

SpecDescent == InitDescent /\ [][NextDescent]_vars

----------------------------------------------------------------------------
(* Claims about the arrival scheduler of ATC_11.py *)

SeparationMinutes == (SEPARATION_TIME * MinuteScale) \div 60

ArrivalCallsigns(list) == {list[i].callsign : i \in {j \in DOMAIN list : _is_arrival_aircraft(list[j])}}

\* C1: the slots _schedule_mp_sequence returns are in ascending order of
\* assigned_time, and each is at least SEPARATION_TIME/60 = 2 minutes after the
\* one before it.
C1_SlotsSeparated ==
    \A i \in 1..(Len(schedule_result) - 1) :
        /\ schedule_result[i].assigned_time < schedule_result[i + 1].assigned_time
        /\ schedule_result[i + 1].assigned_time - schedule_result[i].assigned_time
               >= SeparationMinutes

\* Three slots, one pushed back to exactly the separation, one further away.
C1_Witness ==
    /\ Len(schedule_result) = 3
    /\ schedule_result[2].assigned_time - schedule_result[1].assigned_time = SeparationMinutes
    /\ schedule_result[2].time_adjustment > 0
    /\ schedule_result[3].assigned_time - schedule_result[2].assigned_time > SeparationMinutes

\* C2: no slot is earlier than the aircraft's own ETA: time_adjustment, which is
\* assigned_time - original_eta, is never negative.
C2_NeverAdvanced ==
    \A i \in DOMAIN schedule_result :
        /\ schedule_result[i].original_eta = schedule_result[i].aircraft.eta_minutes
        /\ schedule_result[i].assigned_time >= schedule_result[i].original_eta
        /\ schedule_result[i].time_adjustment
               = schedule_result[i].assigned_time - schedule_result[i].original_eta
        /\ schedule_result[i].time_adjustment >= 0

\* A delayed aircraft behind one that is not delayed.
C2_Witness ==
    /\ Len(schedule_result) >= 2
    /\ schedule_result[1].time_adjustment = 0
    /\ schedule_result[2].time_adjustment > 0

\* C3: the schedule is the greedy slotting: the slots are the arrival aircraft of
\* the snapshot in ETA order, the first gets its ETA, each later one the larger
\* of its ETA and the previous slot plus 2 minutes; ETAs 10.0, 10.5, 20.0 give
\* 10.0, 12.0, 20.0 with adjustments 0.0, 1.5, 0.0.
C3_GreedySlotting ==
    /\ Len(schedule_result) = Cardinality(ArrivalCallsigns(snapshot))
    /\ {schedule_result[i].callsign : i \in DOMAIN schedule_result} = ArrivalCallsigns(snapshot)
    /\ \A i \in DOMAIN schedule_result :
           /\ i > 1 => schedule_result[i - 1].original_eta <= schedule_result[i].original_eta
           /\ schedule_result[i].assigned_time =
                  IF i = 1
                  THEN schedule_result[i].original_eta
                  ELSE Max(schedule_result[i].original_eta,
                           schedule_result[i - 1].assigned_time + 2 * MinuteScale)
    /\ [i \in DOMAIN schedule_result |-> schedule_result[i].original_eta]
           = <<10 * MinuteScale, (21 * MinuteScale) \div 2, 20 * MinuteScale>>
       => /\ [i \in DOMAIN schedule_result |-> schedule_result[i].assigned_time]
                 = <<10 * MinuteScale, 12 * MinuteScale, 20 * MinuteScale>>
          /\ [i \in DOMAIN schedule_result |-> schedule_result[i].time_adjustment]
                 = <<0, (3 * MinuteScale) \div 2, 0>>

\* The scenario of the claim, given in another order than the ETAs'.
C3_Witness ==
    /\ [i \in DOMAIN schedule_result |-> schedule_result[i].original_eta]
           = <<10 * MinuteScale, (21 * MinuteScale) \div 2, 20 * MinuteScale>>
    /\ [i \in DOMAIN snapshot |-> snapshot[i].callsign]
           # [i \in DOMAIN schedule_result |-> schedule_result[i].callsign]

Reorderings(list) ==
    {[i \in DOMAIN list |-> list[f[i]]] :
         f \in {g \in [DOMAIN list -> DOMAIN list] : \A i, j \in DOMAIN list : i # j => g[i] # g[j]}}

\* C4: the schedule does not depend on the order of the list: the same arrival
\* aircraft given in any other order get, callsign by callsign, the same slot
\* and the same place in the sequence.
C4_OrderIndependent ==
    \A other \in Reorderings(snapshot) :
        LET again == _schedule_mp_sequence(_extract_arrival_aircraft(other))
        IN  \A i \in DOMAIN schedule_result :
                /\ again[i].callsign = schedule_result[i].callsign
                /\ again[i].assigned_time = schedule_result[i].assigned_time

AircraftOf(callsign) == snapshot[CHOOSE i \in DOMAIN snapshot : snapshot[i].callsign = callsign]

\* C5: no command carries a speed above 250 kt together with an altitude below
\* 10,000 ft, and none carries a speed above 250 kt for an aircraft that is
\* below 10,000 ft; the target speed of ATC_9.py is never above 250 kt either.
C5_SpeedLimitBelow10000 ==
    /\ \A i \in DOMAIN combo_log :
           LET kwargs == combo_log[i].kwargs
           IN  "speed" \in DOMAIN kwargs /\ kwargs["speed"] > SPEED_LIMIT
                   => /\ "altitude" \in DOMAIN kwargs => kwargs["altitude"] >= SPEED_LIMIT_ALT
                      /\ AircraftOf(combo_log[i].callsign).altitude >= SPEED_LIMIT_ALT
    /\ \A i \in DOMAIN snapshot, involved \in BOOLEAN :
           _calculate_target_speed(snapshot[i], involved) <= SPEED_LIMIT

\* A speed and an altitude below 10,000 ft emitted together, to an aircraft
\* that is below 10,000 ft.
C5_Witness ==
    \E i \in DOMAIN combo_log :
        /\ combo_log[i].success
        /\ {"speed", "altitude"} \subseteq DOMAIN combo_log[i].instructions
        /\ combo_log[i].instructions["altitude"] < SPEED_LIMIT_ALT
        /\ AircraftOf(combo_log[i].callsign).altitude < SPEED_LIMIT_ALT

----------------------------------------------------------------------------
(* Claims about the cooldown *)

\* C7: a command for a callsign is not sent again by
\* MultiAircraftCoordinator.process_update before the cooldown of 30 s has
\* elapsed since the previous command sent to it.
C7_CoordinatorCooldown ==
    program = "ATC_11"
        => \A c \in Callsigns :
               prev_emit[c] # 0 => last_emit[c] - prev_emit[c] >= COMMAND_INTERVAL

\* The entry of the last combo call of the last tick for `callsign`, if any.
CalledFor(callsign) == {i \in DOMAIN combo_log : combo_log[i].callsign = callsign}

\* C6: in ATC_7.py and ATC_9.py two commands sent with success to one callsign
\* are at least the cooldown of 30 s apart, a tick that comes sooner sends the
\* callsign nothing; last_command_time of a tracked callsign is the time of the
\* last command sent to it with success.
C6_OptimizerCooldown ==
    program \in {"ATC_7", "ATC_9"}
        => /\ \A c \in Callsigns :
                  prev_emit[c] # 0 => last_emit[c] - prev_emit[c] >= COMMAND_INTERVAL
           /\ \A c \in DOMAIN aircraft_states :
                  aircraft_states[c].last_command_time = last_emit[c]
           /\ \A i \in DOMAIN combo_log :
                  combo_log[i].success => last_emit[combo_log[i].callsign] <= now

\* One tick of ATC_7.py that sends a callsign its second command, a cooldown
\* after the first, and holds back another callsign that is inside its cooldown
\* and would be given commands.
C6_Witness ==
    /\ program = "ATC_7"
    /\ is_connected
    /\ \E c, d \in DOMAIN aircraft_states :
           /\ c # d
           /\ prev_emit[c] # 0
           /\ last_emit[c] = now
           /\ \E i \in CalledFor(c) : combo_log[i].success
           /\ d \in CallsignsOf(snapshot)
           /\ _is_arrival_aircraft(AircraftOf(d))
           /\ GeneratedCommands(aircraft_states[d]) # EmptyDict
           /\ CalledFor(d) = {}
           /\ last_emit[d] # 0
           /\ now - last_emit[d] < COMMAND_INTERVAL

----------------------------------------------------------------------------
(* Claims about aircraft_states *)

\* C8: after every tick of process_update the keys of aircraft_states are the
\* callsigns tracked from the snapshot of the tick, a callsign that is not in
\* the snapshot has no entry.
C8_StatesMatchSnapshot ==
    outcome = "returned" => DOMAIN aircraft_states = ArrivalCallsigns(snapshot)

----------------------------------------------------------------------------
(* Claims about the conflict detector of ATC_9.py *)

\* The pairs _detect_conflicts looks at.
Pairs == {pair \in (DOMAIN predicted) \X (DOMAIN predicted) : pair[1] < pair[2]}

\* The time indices the trajectories of a pair have in common.
CommonIndices(pair) ==
    1..Min(Len(predicted[pair[1]].trajectory), Len(predicted[pair[2]].trajectory))

HorizontalAt(pair, k) ==
    calculate_distance(predicted[pair[1]].trajectory[k], predicted[pair[2]].trajectory[k])

VerticalAt(pair, k) ==
    LET difference == predicted[pair[1]].trajectory[k].altitude
                          - predicted[pair[2]].trajectory[k].altitude
    IN  IF difference >= 0 THEN difference ELSE 0 - difference

\* The entries of `conflicts` that name the two aircraft of a pair.
InfosOf(pair) ==
    {i \in DOMAIN conflicts :
         {conflicts[i].aircraft1, conflicts[i].aircraft2}
             = {predicted[pair[1]].callsign, predicted[pair[2]].callsign}}

ClosestIndex(pair) ==
    CHOOSE k \in CommonIndices(pair) :
        \A m \in CommonIndices(pair) :
            \/ HorizontalAt(pair, k) < HorizontalAt(pair, m)
            \/ (HorizontalAt(pair, k) = HorizontalAt(pair, m) /\ k <= m)

----------------------------------------------------------------------------
(* Claims about the descent controller of descent_control.py *)

\* An evaluation has been made: calculate_descent_command has returned.
Evaluated == descent_commands # <<>>

\* The place of a phase in the order CRUISE < INITIAL_DESCENT < ... < LANDING.
PhaseRank(phase) == CHOOSE i \in DOMAIN FlightPhase : FlightPhase[i] = phase

\* C11: every evaluation leaves in current_phase the phase of the first rule that
\* applies to the evaluated state: above 15000 ft in CRUISE, INITIAL_DESCENT; from
\* above 10000 ft up to 15000 ft, SPEED_REDUCTION_250; at or below 10000 ft and
\* beyond 15 nm, INTERMEDIATE_DESCENT; else from above 10 nm up to 15 nm,
\* FINAL_APPROACH_PREP; else within 10 nm, FINAL_APPROACH; else the phase is kept.
\* A fresh controller at 28000 ft and 130 nm goes to INITIAL_DESCENT, and any
\* controller below 10000 ft at 20 nm goes to INTERMEDIATE_DESCENT.
C11_PhaseRules ==
    [][LET a == flight_state'.altitude
           d == flight_state'.distance_to_runway
           high == a > 15000 /\ current_phase # "cruise"
       IN  /\ current_phase' =
                CASE a > 15000 /\ current_phase = "cruise" -> "initial_descent"
                  [] a > 10000 /\ a <= 15000 -> "speed_reduction_250"
                  [] a <= 10000 /\ d > 15 -> "intermediate_descent"
                  [] (high \/ a <= 10000) /\ d > 10 /\ d <= 15 -> "final_approach_prep"
                  [] (high \/ a <= 10000) /\ d <= 10 -> "final_approach"
                  [] OTHER -> current_phase
           /\ descent_commands'.flight_phase = current_phase'
           /\ (current_phase = "cruise" /\ ~Evaluated /\ a = 28000 /\ d = 130)
                => current_phase' = "initial_descent"
           /\ (a < 10000 /\ d = 20) => current_phase' = "intermediate_descent"]_vars

\* C11 witness: a controller that left CRUISE has been evaluated below 10000 ft at
\* 20 nm and is in INTERMEDIATE_DESCENT.
C11_Witness ==
    /\ Evaluated
    /\ flight_state.altitude = 9000
    /\ flight_state.distance_to_runway = 20
    /\ current_phase = "intermediate_descent"

\* C12: from one evaluation to the next, when neither the altitude nor the
\* distance has increased, current_phase does not move to an earlier phase.
C12_PhaseNeverRegresses ==
    [][(/\ Evaluated
        /\ flight_state'.altitude <= flight_state.altitude
        /\ flight_state'.distance_to_runway <= flight_state.distance_to_runway)
       => PhaseRank(current_phase') >= PhaseRank(current_phase)]_vars

\* C13: the rate get_optimal_descent_rate selects for the evaluated state is 500,
\* 1000, 1500 or 2000 as the ratio of the distance left after the safety margin
\* to the 3 degree glide distance is above 1.5, above 1.2, above 1.0 or not.
C13_RateByAvailableDistance ==
    Evaluated =>
        get_optimal_descent_rate(flight_state) = get_optimal_descent_rate_OnAvailable(flight_state)

\* C14: the command carries the table rate, by the standard method, whenever the
\* table rate and int(ground_speed / 2) differ by at most 200, and the halved
\* ground speed only when they differ by more than 200.
C14_StandardWithin200 ==
    Evaluated =>
        IF RateDifference(flight_state) <= 200
        THEN /\ descent_commands.descent_rate = get_optimal_descent_rate(flight_state)
             /\ descent_commands.method_used = "standard_90_percent"
        ELSE /\ descent_commands.descent_rate =
                    get_descent_rate_by_ground_speed(flight_state.ground_speed)
             /\ descent_commands.method_used = "ground_speed_9_percent"

\* C15: the flap setting of the command is 15 within 9 nm, 5 from above 9 nm up to
\* 10 nm, and 0 beyond 10 nm.
C15_FlapByDistance ==
    Evaluated =>
        descent_commands.flap_setting =
            IF flight_state.distance_to_runway <= faf_distance THEN 15
            ELSE IF flight_state.distance_to_runway <= flap5_distance THEN 5
            ELSE 0

----------------------------------------------------------------------------
(* Claims about the commands of ATC_11.py *)

\* C16: a command issued to an aircraft within 10 nm of MP carries, where it
\* carries an altitude, FINAL_ALTITUDE (2000 ft), and where it carries a speed,
\* FINAL_SPEED (180 kt), whatever its path decision and its delay.
C16_FinalTargetsWithin10 ==
    \A i \in DOMAIN combo_log :
        LET instructions == combo_log[i].instructions
        IN  combo_log[i].success /\ AircraftOf(combo_log[i].callsign).distance_to_mp <= 10
                => /\ "altitude" \in DOMAIN instructions
                        => instructions["altitude"] = FINAL_ALTITUDE
                   /\ "speed" \in DOMAIN instructions
                        => instructions["speed"] = FINAL_SPEED

\* Keyword arguments none of which combo knows.
UnrecognisedKwargs == {EmptyDict, "flaps" :> 5, ("flaps" :> 5) @@ ("gear" :> 1)}

\* C17: no 'atc_commands' is emitted with empty instructions: a combo call that
\* succeeds carries at least one instruction, combo returns False for keyword
\* arguments with no field it knows, and _execute_commands calls combo for no
\* aircraft whose merged command set is empty, an aircraft with a 'default' path
\* decision and no coordination command included.
C17_NoEmptyCommand ==
    /\ \A i \in DOMAIN combo_log :
           /\ combo_log[i].kwargs # EmptyDict
           /\ combo_log[i].success => combo_log[i].instructions # EmptyDict
    /\ \A c \in Callsigns, kwargs \in UnrecognisedKwargs, raises \in BOOLEAN :
           ~combo(c, kwargs, is_connected, raises).success
    /\ \A i \in DOMAIN schedule_result :
           LET c == schedule_result[i].callsign
           IN  AllCommands(c, _optimize_paths(schedule_result),
                           _coordinate_speed_altitude(schedule_result)) = EmptyDict
                   => CalledFor(c) = {}

\* C17 witness: a tick with the frontend connected in which one aircraft has the
\* 'default' path decision and no coordination command and is sent nothing, while
\* another is sent a command.
C17_Witness ==
    /\ is_connected
    /\ \E i \in DOMAIN combo_log : combo_log[i].success
    /\ \E i \in DOMAIN schedule_result :
           LET c == schedule_result[i].callsign
               path_commands == _optimize_paths(schedule_result)
           IN  /\ c \in DOMAIN path_commands
               /\ path_commands[c].type = "default"
               /\ c \notin DOMAIN _coordinate_speed_altitude(schedule_result)
               /\ CalledFor(c) = {}

\* C18: one record with 'N/A' for a number does not abort the tick: the handler
\* returns, and every other arrival aircraft of the event is scheduled and, where
\* it has commands, called for.
C18_MalformedRecordSkipped ==
    malformed # {}
        => /\ outcome = "returned"
           /\ \A i \in DOMAIN snapshot :
                  _is_arrival_aircraft(snapshot[i]) /\ snapshot[i].callsign \notin malformed
                      => \E j \in DOMAIN schedule_result :
                             schedule_result[j].callsign = snapshot[i].callsign

----------------------------------------------------------------------------
(* Claims about the delivery of commands *)

\* The combo calls of the last tick that reached socketio.emit and failed there.
FailedCalls == {i \in DOMAIN combo_log : is_connected /\ ~combo_log[i].success}

\* C19: a delivery that fails does not end the tick: the handler returns, every
\* aircraft with commands is called for, each callsign once at most; in ATC_9.py
\* last_command_time is the time of the last delivery that succeeded, so that a
\* failed one leaves it as it was, and the cooldown holds a command back only
\* for an aircraft to which a delivery has succeeded.
C19_FailedDeliveryRetried ==
    /\ outcome \in {"none", "returned"}
    /\ \A c \in Callsigns : Cardinality(CalledFor(c)) <= 1
    /\ \A i \in DOMAIN schedule_result :
           LET c == schedule_result[i].callsign
           IN  AllCommands(c, _optimize_paths(schedule_result),
                           _coordinate_speed_altitude(schedule_result)) # EmptyDict
                   => CalledFor(c) # {}
    /\ \A i \in DOMAIN solution :
           /\ solution[i].commands # EmptyDict => CalledFor(solution[i].callsign) # {}
           /\ solution[i].pending # EmptyDict /\ solution[i].commands = EmptyDict
                  => last_emit[solution[i].callsign] # 0
    /\ program = "ATC_9"
           => \A c \in DOMAIN aircraft_states :
                  aircraft_states[c].last_command_time = last_emit[c]

\* C19 witness: a tick of ATC_9.py in which the delivery to the first aircraft
\* failed and the one to the second succeeded; the first had failed before, too,
\* and was called for again: its last_command_time is still 0.
C19_Witness ==
    /\ program = "ATC_9"
    /\ now > StartTime
    /\ Len(combo_log) = 2
    /\ 1 \in FailedCalls
    /\ combo_log[2].success
    /\ aircraft_states[combo_log[1].callsign].last_command_time = 0
    /\ aircraft_states[combo_log[2].callsign].last_command_time = now

----------------------------------------------------------------------------
(* Claims about the automatic commands of ATC_backend_91.py *)

\* The custom-route commands emitted since the last connect or reset: each ends
\* one descent + custom-route pair.
PairsEmitted == {i \in DOMAIN auto_emits : auto_emits[i] = route_command}

\* C20: between one connect or /reset_auto_commands and the next the descent +
\* custom-route pair is emitted at most once, however the aircraft_data events
\* and the /trigger_auto_commands requests interleave.
C20_OneTimeTrigger == Cardinality(PairsEmitted) <= 1

\* C21: while a frontend is connected and the flag is unset, the aircraft_data
\* event that first shows CSN202 at or below 70 nm, after one that showed it
\* above, meets the test of check_csn202_auto_commands, so that the automatic
\* commands are sent with that event.
C21_SentAtFirstSnapshotBelow70 ==
    [][(/\ aircraft_data # <<>>
        /\ aircraft_data[1].earliestDistanceToMP > csn202_target_distance
        /\ aircraft_data' # <<>>
        /\ aircraft_data'[1].earliestDistanceToMP <= csn202_target_distance
        /\ is_connected
        /\ ~csn202_auto_commands_sent)
       => Triggers(aircraft_data'[1])]_vars


----------------------------------------------------------------------------
(* ATC_11.py: _optimize_paths on its own *)

\* The time adjustments of the slots given to _optimize_paths, in model units:
\* -2, just under -1, -1, 0, 2, just over 2 and 3 minutes.
PathAdjustments ==
    {(-2) * MinuteScale, (-1) * MinuteScale - 1, (-1) * MinuteScale, 0,
     2 * MinuteScale, 2 * MinuteScale + 1, 3 * MinuteScale}

\* The slots of callsign c: an analysed arrival aircraft and a time adjustment.
PathSlots(c) ==
    {[callsign |-> c,
      original_eta |-> _analyze_aircraft_state(Record(c, p)).eta_minutes,
      assigned_time |-> _analyze_aircraft_state(Record(c, p)).eta_minutes + a,
      time_adjustment |-> a,
      aircraft |-> _analyze_aircraft_state(Record(c, p))] :
        p \in {q \in Profiles : q.flight_type = "ARRIVAL" /\ q.distance_to_mp >= 40},
        a \in PathAdjustments}

\* schedule_result of one or two aircraft.
PathSchedules ==
    {<<s>> : s \in PathSlots("CSN202") \cup PathSlots("CCA101")}
        \cup {<<s, t>> : s \in PathSlots("CSN202"), t \in PathSlots("CCA101")}

InitPaths ==
    /\ program = "ATC_11"
    /\ is_connected = FALSE
    /\ now = 0
    /\ snapshot = <<>>
    /\ outcome = "none"
    /\ schedule_result = <<>>
    /\ combo_log = <<>>
    /\ aircraft_states = <<>>
    /\ predicted = <<>>
    /\ conflicts = <<>>
    /\ last_emit = [c \in Callsigns |-> 0]
    /\ prev_emit = [c \in Callsigns |-> 0]
    /\ NoDescentController
    /\ NoBackend91
    /\ malformed = {}
    /\ solution = <<>>
    /\ NoUnits

\* One call of _optimize_paths(aircraft_list, schedule_result).
optimize_paths ==
    \E schedule \in PathSchedules :
        /\ schedule_result' = schedule
        /\ path_decisions' = _optimize_paths(schedule)
        /\ UNCHANGED <<program, is_connected, now, snapshot, outcome, combo_log,
                       aircraft_states, predicted, conflicts, last_emit, prev_emit,
                       descentVars, malformed, solution, backendVars,
                       wind_data, wind_query, command_history, all_sent, clients>>

NextPaths == optimize_paths

SpecPaths == InitPaths /\ [][NextPaths]_vars

\* C22: of the slots given to _optimize_paths, an aircraft whose route is not in
\* flexible_zones gets no decision; a flexible one gets the default path, with no
\* waypoints, when its adjustment is over 2 minutes, the direct path
\* [direct_start, MP] when it is under -1 minute, and no decision otherwise.
C22_PathByAdjustment ==
    \A i \in DOMAIN schedule_result :
        LET item == schedule_result[i]
            c == item.callsign
            flexible == item.aircraft.route_name \in DOMAIN flexible_zones
        IN  /\ ~flexible => c \notin DOMAIN path_decisions
            /\ (flexible /\ item.time_adjustment > 2 * MinuteScale)
                   => /\ c \in DOMAIN path_decisions
                      /\ path_decisions[c] = [type |-> "default"]
            /\ (flexible /\ item.time_adjustment < (-1) * MinuteScale)
                   => /\ c \in DOMAIN path_decisions
                      /\ path_decisions[c] =
                             [type |-> "direct",
                              waypoints |-> <<flexible_zones[item.aircraft.route_name], "MP">>]
            /\ (flexible /\ item.time_adjustment >= (-1) * MinuteScale
                         /\ item.time_adjustment <= 2 * MinuteScale)
                   => c \notin DOMAIN path_decisions

C22_Witness ==
    /\ Len(schedule_result) = 2
    /\ schedule_result[1].aircraft.route_name = "C Arrival"
    /\ schedule_result[1].time_adjustment = (-1) * MinuteScale - 1
    /\ schedule_result[2].aircraft.route_name = "Unknown"
    /\ schedule_result[2].time_adjustment = 3 * MinuteScale
    /\ path_decisions = ("CSN202" :> [type |-> "direct", waypoints |-> <<"L3", "MP">>])

\* C23: _predict_4d_trajectory returns for every arrival aircraft of a snapshot
\* given to ATC_9.py, and what it returns has at most
\* PREDICTION_TIME / TIME_STEP = 20 points.
C23_TrajectoryReturned ==
    program = "ATC_9" =>
        \A i \in DOMAIN snapshot :
            _is_arrival_aircraft(snapshot[i]) =>
                /\ _predict_4d_trajectory(snapshot[i]).raised = "none"
                /\ Len(_predict_4d_trajectory(snapshot[i]).trajectory)
                       <= PREDICTION_TIME \div TIME_STEP
                /\ outcome # "NameError"

----------------------------------------------------------------------------
(* ATC_11.py, ATC_9.py: get_wind_at_altitude *)

\* The altitudes, directions, speeds and temperatures of the wind tables; their
\* differences are such that every interpolation below is exact in integers.
WindLayerAltitudes == {1000, 2000, 4000}
WindDirections == {0, 120, 240, 360}
WindSpeeds == {12, 24}
WindTemps == {3, 15}
WindQueryAltitudes == {500, 1000, 1500, 2000, 2500, 3000, 4000, 4500}

WindLayers(alt) ==
    {[alt |-> alt, dir |-> d, speed |-> s, temp |-> t] :
        d \in WindDirections, s \in WindSpeeds, t \in WindTemps}

\* windData: no layer, or up to three layers in increasing altitude.
WindTables ==
    {<<>>}
        \cup {<<a>> : a \in UNION {WindLayers(alt) : alt \in WindLayerAltitudes}}
        \cup {<<a, b>> : a \in WindLayers(1000), b \in WindLayers(2000) \cup WindLayers(4000)}
        \cup {<<a, b>> : a \in WindLayers(2000), b \in WindLayers(4000)}
        \cup {<<a, b, c>> : a \in WindLayers(1000), b \in WindLayers(2000),
                            c \in WindLayers(4000)}

\* lower + (upper - lower) * ratio, ratio being numerator / denominator.
Interpolate(lower, upper, numerator, denominator) ==
    lower + ((upper - lower) * numerator) \div denominator

\* Lines 58-68: the direction along the shorter arc, brought back by one turn.
InterpolatedDirection(lower, upper, numerator, denominator) ==
    LET raw == upper - lower
        dir_diff1 == IF raw > 180 THEN raw - 360 ELSE raw
        dir_diff == IF dir_diff1 < -180 THEN dir_diff1 + 360 ELSE dir_diff1
        interpolated_dir1 == lower + (dir_diff * numerator) \div denominator
        interpolated_dir2 == IF interpolated_dir1 < 0 THEN interpolated_dir1 + 360
                                                      ELSE interpolated_dir1
    IN  IF interpolated_dir2 >= 360 THEN interpolated_dir2 - 360 ELSE interpolated_dir2

get_wind_at_altitude(altitude, table) ==
    IF table = <<>>
    THEN [direction |-> 0, speed |-> 0, temp |-> 15]
    ELSE IF altitude <= table[1].alt
    THEN [direction |-> table[1].dir, speed |-> table[1].speed, temp |-> table[1].temp]
    ELSE IF altitude >= table[Len(table)].alt
    THEN [direction |-> table[Len(table)].dir, speed |-> table[Len(table)].speed,
          temp |-> table[Len(table)].temp]
    ELSE LET found == {i \in 1..(Len(table) - 1) :
                          altitude >= table[i].alt /\ altitude <= table[i + 1].alt}
             i == CHOOSE j \in found : \A k \in found : j <= k
             lower_layer == IF found = {} THEN table[1] ELSE table[i]
             upper_layer == IF found = {} THEN table[Len(table)] ELSE table[i + 1]
             numerator == altitude - lower_layer.alt
             denominator == upper_layer.alt - lower_layer.alt
         IN  [direction |-> InterpolatedDirection(lower_layer.dir, upper_layer.dir,
                                                  numerator, denominator),
              speed |-> Interpolate(lower_layer.speed, upper_layer.speed,
                                    numerator, denominator),
              temp |-> Interpolate(lower_layer.temp, upper_layer.temp,
                                   numerator, denominator)]

InitWind ==
    /\ program = "ATC_11"
    /\ is_connected = FALSE
    /\ now = 0
    /\ snapshot = <<>>
    /\ outcome = "none"
    /\ schedule_result = <<>>
    /\ combo_log = <<>>
    /\ aircraft_states = <<>>
    /\ predicted = <<>>
    /\ conflicts = <<>>
    /\ last_emit = [c \in Callsigns |-> 0]
    /\ prev_emit = [c \in Callsigns |-> 0]
    /\ NoDescentController
    /\ NoBackend91
    /\ malformed = {}
    /\ solution = <<>>
    /\ path_decisions = <<>>
    /\ wind_data \in WindTables
    /\ wind_query = <<>>
    /\ command_history = <<>>
    /\ all_sent = <<>>
    /\ clients = {}

\* One call get_wind_at_altitude(altitude_feet, wind_data).
wind_at_altitude ==
    \E altitude_feet \in WindQueryAltitudes :
        /\ wind_query' = [altitude_feet |-> altitude_feet,
                          wind_info |-> get_wind_at_altitude(altitude_feet, wind_data)]
        /\ UNCHANGED <<program, is_connected, now, snapshot, outcome, schedule_result,
                       combo_log, aircraft_states, predicted, conflicts, last_emit,
                       prev_emit, descentVars, malformed, solution, backendVars,
                       path_decisions, wind_data, command_history, all_sent, clients>>

NextWind == wind_at_altitude

SpecWind == InitWind /\ [][NextWind]_vars

\* C24: asked for the altitude of an entry of a non-empty table, get_wind_at_altitude
\* returns that entry's direction, speed and temperature as they stand in the
\* table; asked for an altitude below the first or above the last entry, it
\* returns the first or the last entry.
C24_EntryReturnedUnmodified ==
    (wind_query # <<>> /\ wind_data # <<>>) =>
        /\ \A i \in DOMAIN wind_data :
               wind_query.altitude_feet = wind_data[i].alt =>
                   wind_query.wind_info =
                       [direction |-> wind_data[i].dir, speed |-> wind_data[i].speed,
                        temp |-> wind_data[i].temp]
        /\ wind_query.altitude_feet < wind_data[1].alt =>
               wind_query.wind_info =
                   [direction |-> wind_data[1].dir, speed |-> wind_data[1].speed,
                    temp |-> wind_data[1].temp]
        /\ wind_query.altitude_feet > wind_data[Len(wind_data)].alt =>
               wind_query.wind_info =
                   [direction |-> wind_data[Len(wind_data)].dir,
                    speed |-> wind_data[Len(wind_data)].speed,
                    temp |-> wind_data[Len(wind_data)].temp]

----------------------------------------------------------------------------
(* ATC_4.py: ATCCommandManager._send_command and command_history *)

HistoryLimit == 500   \* len(self.command_history) > 500
MaxSends == 502       \* how many commands are emitted at most

\* Mutant: the newest entry is the one dropped.
Evict_Newest(history) ==
    IF Len(history) > HistoryLimit
    THEN SubSeq(history, 1, Len(history) - 1)
    ELSE history

\* Lines 51-52: pop(0) once the list is longer than 500.
Evict(history) ==
    IF Len(history) > HistoryLimit THEN Tail(history) ELSE history

InitHistory ==
    /\ program = "ATC_4"
    /\ is_connected = FALSE
    /\ now = 0
    /\ snapshot = <<>>
    /\ outcome = "none"
    /\ schedule_result = <<>>
    /\ combo_log = <<>>
    /\ aircraft_states = <<>>
    /\ predicted = <<>>
    /\ conflicts = <<>>
    /\ last_emit = [c \in Callsigns |-> 0]
    /\ prev_emit = [c \in Callsigns |-> 0]
    /\ NoDescentController
    /\ NoBackend91
    /\ malformed = {}
    /\ solution = <<>>
    /\ NoUnits

\* _send_command(callsign, instructions); emit_raises says whether socketio.emit
\* raises.  The clock is read for the timestamp of the entry, and has moved on
\* by the next entry.
_send_command ==
    /\ \E emit_raises \in BOOLEAN :
           LET entry == [timestamp |-> now, callsign |-> "CSN202",
                         instructions |-> ("altitude" :> 8000)]
           IN  IF ~is_connected
               THEN /\ outcome' = "not connected"
                    /\ UNCHANGED <<now, command_history, all_sent>>
               ELSE IF emit_raises
               THEN /\ outcome' = "failed"
                    /\ UNCHANGED <<now, command_history, all_sent>>
               ELSE /\ Len(all_sent) < MaxSends
                    /\ outcome' = "sent"
                    /\ all_sent' = Append(all_sent, entry)
                    /\ command_history' = Evict(Append(command_history, entry))
                    /\ now' = now + 1
    /\ UNCHANGED <<program, is_connected, snapshot, schedule_result, combo_log,
                   aircraft_states, predicted, conflicts, last_emit, prev_emit,
                   descentVars, malformed, solution, backendVars,
                   path_decisions, wind_data, wind_query, clients>>

NextHistory == _send_command \/ handle_connect \/ handle_disconnect

SpecHistory == InitHistory /\ [][NextHistory]_vars

\* C25: command_history never holds more than 500 entries, and it is the last
\* 500 (or all, while there are fewer) of the commands emitted so far, in the
\* order they were emitted; a call that did not emit has added nothing.
C25_HistoryIsLast500 ==
    /\ Len(command_history) <= HistoryLimit
    /\ command_history =
           SubSeq(all_sent, Max(1, Len(all_sent) - HistoryLimit + 1), Len(all_sent))

C25_Witness ==
    /\ Len(all_sent) = HistoryLimit + 2
    /\ Len(command_history) = HistoryLimit
    /\ command_history[1] = all_sent[3]
    /\ outcome = "failed"

----------------------------------------------------------------------------
(* The altitude and vertical-speed commands of ATC_11.py, ATC_7.py and ATC_9.py,
   each generator applied to one aircraft and its commands handed to combo *)

DESCENT_RATIO == 3

\* _calculate_optimal_descent_profile of ATC_9.py (lines 475-504).  The distances
\* are held multiplied by DESCENT_RATIO: distance_needed is
\* altitude_to_lose / DESCENT_RATIO, decel_distance is 120 / 10.
_calculate_optimal_descent_profile(current_altitude, distance_to_mp, ground_speed) ==
    LET altitude_to_lose == current_altitude - FINAL_ALTITUDE
        decel_distance == 120 \div 10
        scaled_distance == distance_to_mp * DESCENT_RATIO
    IN  IF scaled_distance > altitude_to_lose + (decel_distance + 20) * DESCENT_RATIO
        THEN [strategy |-> "normal",
              scaled_start_distance |-> altitude_to_lose + 10 * DESCENT_RATIO,
              descent_rate |-> 1000]
        ELSE IF scaled_distance > altitude_to_lose + 10 * DESCENT_RATIO
        THEN [strategy |-> "early_decel",
              scaled_start_distance |-> scaled_distance - 10 * DESCENT_RATIO,
              descent_rate |-> 1500]
        ELSE [strategy |-> "speedbrake",
              scaled_start_distance |-> scaled_distance - 5 * DESCENT_RATIO,
              descent_rate |-> 2000]

\* _calculate_target_altitude of ATC_9.py (lines 642-654).
_calculate_target_altitude(aircraft) ==
    IF aircraft.distance_to_mp > 50 THEN Min(aircraft.altitude, 15000)
    ELSE IF aircraft.distance_to_mp > 30 THEN Min(aircraft.altitude, 10000)
    ELSE IF aircraft.distance_to_mp > 15 THEN Min(aircraft.altitude, 6000)
    ELSE FINAL_ALTITUDE

\* Lines 622-627 of _generate_optimization_commands: the altitude and the
\* vertical speed by the descent profile.
DescentProfileCommands(aircraft) ==
    LET descent_profile == _calculate_optimal_descent_profile(
                               aircraft.altitude, aircraft.distance_to_mp,
                               aircraft.ground_speed)
        target_altitude == _calculate_target_altitude(aircraft)
        difference == aircraft.altitude - target_altitude
    IN  IF /\ aircraft.distance_to_mp * DESCENT_RATIO <= descent_profile.scaled_start_distance
           /\ aircraft.altitude > FINAL_ALTITUDE
           /\ (difference > 500 \/ difference < -500)
        THEN ("altitude" :> target_altitude)
                 @@ ("vertical_speed" :> 0 - descent_profile.descent_rate)
        ELSE EmptyDict

\* Lines 629-632: the speed, for an aircraft in no conflict.
TargetSpeedCommands(aircraft) ==
    LET target_speed == _calculate_target_speed(aircraft, FALSE)
        difference == aircraft.ias - target_speed
    IN  IF difference > 10 \/ difference < -10
        THEN "speed" :> target_speed
        ELSE EmptyDict

\* `commands` of _generate_optimization_commands past the cooldown, conflicts
\* being empty (no arc route then, lines 694-700).
OptimizationCommands(aircraft) ==
    DescentProfileCommands(aircraft) @@ TargetSpeedCommands(aircraft)

VerticalAltitudes == {1500, 2000, 2400, 2600, 4000, 6600, 12000, 16000}
VerticalDistances == {0, 15, 16, 20, 21, 30, 31, 50, 51, 79, 80}
VerticalGroundSpeeds == {120, 240, 480}
VerticalAdjustments == {0, 4 * MinuteScale}

\* One arrival aircraft as process_data hands it on.
VerticalAircraft(altitude, distance_to_mp, ground_speed) ==
    [callsign |-> "CSN202", flight_type |-> "ARRIVAL", route_name |-> "A Arrival",
     altitude |-> altitude, ias |-> 220, distance_to_mp |-> distance_to_mp,
     ground_speed |-> ground_speed]

InitVertical ==
    /\ program \in {"ATC_11", "ATC_7", "ATC_9"}
    /\ is_connected = FALSE
    /\ now = StartTime
    /\ snapshot = <<>>
    /\ outcome = "none"
    /\ schedule_result = <<>>
    /\ combo_log = <<>>
    /\ aircraft_states = EmptyDict
    /\ predicted = <<>>
    /\ conflicts = <<>>
    /\ last_emit = [c \in Callsigns |-> 0]
    /\ prev_emit = [c \in Callsigns |-> 0]
    /\ NoDescentController
    /\ NoBackend91
    /\ malformed = {}
    /\ solution = <<>>
    /\ NoUnits

VerticalUnchanged ==
    UNCHANGED <<program, is_connected, now, outcome, aircraft_states, predicted, conflicts,
                last_emit, prev_emit, descentVars, malformed, solution, backendVars,
                moreVars>>

\* ATC_11.py: _coordinate_speed_altitude and _execute_commands for one slot.
coordinate_and_execute_11 ==
    /\ program = "ATC_11"
    /\ \E altitude \in VerticalAltitudes, distance_to_mp \in VerticalDistances,
          time_adjustment \in VerticalAdjustments :
           LET record == VerticalAircraft(altitude, distance_to_mp, 240)
               aircraft == _analyze_aircraft_state(record)
               item == [callsign |-> aircraft.callsign,
                        original_eta |-> aircraft.eta_minutes,
                        assigned_time |-> aircraft.eta_minutes + time_adjustment,
                        time_adjustment |-> time_adjustment,
                        aircraft |-> aircraft]
           IN  /\ snapshot' = <<record>>
               /\ schedule_result' = <<item>>
               /\ combo_log' = _execute_commands(<<aircraft>>, _optimize_paths(<<item>>),
                                                 _coordinate_speed_altitude(<<item>>),
                                                 is_connected, {})
    /\ VerticalUnchanged

\* ATC_7.py: _generate_commands for one aircraft past its cooldown.
generate_commands_7 ==
    /\ program = "ATC_7"
    /\ \E altitude \in VerticalAltitudes, distance_to_mp \in VerticalDistances,
          ground_speed \in VerticalGroundSpeeds :
           LET record == VerticalAircraft(altitude, distance_to_mp, ground_speed)
               state == _analyze_aircraft(record, EmptyDict)
           IN  /\ snapshot' = <<record>>
               /\ combo_log' = _generate_commands(<<state>>, state.callsign :> state, <<>>,
                                                  now, is_connected, {}).log
    /\ UNCHANGED schedule_result
    /\ VerticalUnchanged

\* ATC_9.py: _generate_optimization_commands and _execute_commands for one
\* aircraft past its cooldown.
generate_optimization_commands_9 ==
    /\ program = "ATC_9"
    /\ \E altitude \in VerticalAltitudes, distance_to_mp \in VerticalDistances :
           LET record == VerticalAircraft(altitude, distance_to_mp, 240)
           IN  /\ snapshot' = <<record>>
               /\ combo_log' = _execute_commands_9(
                                   <<[callsign |-> record.callsign,
                                      commands |-> OptimizationCommands(record)]>>,
                                   EmptyDict, <<>>, now, is_connected, {}).log
    /\ UNCHANGED schedule_result
    /\ VerticalUnchanged

NextVertical ==
    \/ coordinate_and_execute_11
    \/ generate_commands_7
    \/ generate_optimization_commands_9
    \/ handle_connect
    \/ handle_disconnect

SpecVertical == InitVertical /\ [][NextVertical]_vars

\* C26: every vertical speed handed to combo and every verticalSpeed emitted, by
\* ATC_11.py, ATC_7.py and ATC_9.py, is negative, and its magnitude is at least
\* 500 and at most MAX_DESCENT_RATE.
C26_VerticalSpeedInRange ==
    \A i \in DOMAIN combo_log :
        /\ "vertical_speed" \in DOMAIN combo_log[i].kwargs =>
               /\ combo_log[i].kwargs["vertical_speed"] <= 0 - 500
               /\ combo_log[i].kwargs["vertical_speed"] >= 0 - MAX_DESCENT_RATE
        /\ "verticalSpeed" \in DOMAIN combo_log[i].instructions =>
               /\ combo_log[i].instructions["verticalSpeed"] <= 0 - 500
               /\ combo_log[i].instructions["verticalSpeed"] >= 0 - MAX_DESCENT_RATE

C26_Witness ==
    /\ program = "ATC_7"
    /\ Len(combo_log) = 1
    /\ combo_log[1].success
    /\ "verticalSpeed" \in DOMAIN combo_log[1].instructions
    /\ combo_log[1].instructions["verticalSpeed"] = 0 - MAX_DESCENT_RATE

\* C27: every altitude ATC_11.py and ATC_9.py hand to combo is at least
\* FINAL_ALTITUDE and not above the altitude the aircraft has; for an aircraft
\* at or below FINAL_ALTITUDE they hand over neither an altitude nor a vertical
\* speed.
C27_AltitudeBetweenFinalAndCurrent ==
    (program \in {"ATC_11", "ATC_9"} /\ snapshot # <<>>) =>
        \A i \in DOMAIN combo_log :
            /\ "altitude" \in DOMAIN combo_log[i].kwargs =>
                   /\ combo_log[i].kwargs["altitude"] >= FINAL_ALTITUDE
                   /\ combo_log[i].kwargs["altitude"] <= snapshot[1].altitude
            /\ snapshot[1].altitude <= FINAL_ALTITUDE =>
                   /\ "altitude" \notin DOMAIN combo_log[i].kwargs
                   /\ "vertical_speed" \notin DOMAIN combo_log[i].kwargs

\* An aircraft 400 ft above FINAL_ALTITUDE far out: the step of ATC_11.py would
\* take it below, and FINAL_ALTITUDE is what is sent.
C27_Witness ==
    /\ program = "ATC_11"
    /\ snapshot # <<>>
    /\ snapshot[1].altitude = 2400
    /\ snapshot[1].distance_to_mp = 51
    /\ Len(combo_log) = 1
    /\ combo_log[1].success
    /\ combo_log[1].instructions["altitude"] = FINAL_ALTITUDE

\* The slot of a callsign in schedule_result.
SlotOf(callsign) ==
    schedule_result[CHOOSE i \in DOMAIN schedule_result :
                        schedule_result[i].callsign = callsign]

\* C28: in a tick of MultiAircraftCoordinator.process_update no call of combo
\* carries waypoints and nothing emitted carries customRoute; a speed, where
\* there is one, is 200 kt, below the aircraft's IAS, and goes to an aircraft
\* delayed by more than 3 minutes, which the first of the sequence never is.
C28_NoRouteNoSpeedUp ==
    program = "ATC_11" =>
        \A i \in DOMAIN combo_log :
            LET call == combo_log[i]
            IN  /\ "waypoints" \notin DOMAIN call.kwargs
                /\ "customRoute" \notin DOMAIN call.instructions
                /\ "speed" \in DOMAIN call.kwargs =>
                       /\ call.kwargs["speed"] = 200
                       /\ call.kwargs["speed"] < SlotOf(call.callsign).aircraft.ias
                       /\ SlotOf(call.callsign).time_adjustment > 3 * MinuteScale
                       /\ call.callsign # schedule_result[1].callsign

\* The third of three aircraft on a flexible route, delayed by 4 minutes: its
\* path decision is the default path, and 200 kt is emitted to it.
C28_Witness ==
    /\ program = "ATC_11"
    /\ Len(schedule_result) = 3
    /\ schedule_result[3].aircraft.is_flexible
    /\ schedule_result[3].time_adjustment > 3 * MinuteScale
    /\ \E i \in DOMAIN combo_log :
           /\ combo_log[i].callsign = schedule_result[3].callsign
           /\ combo_log[i].success
           /\ "speed" \in DOMAIN combo_log[i].instructions
           /\ combo_log[i].instructions["speed"] = 200

\* C29: an evaluation by calculate_descent_command never leaves current_phase at
\* CRUISE or at LANDING, and it takes current_phase to INITIAL_DESCENT only from
\* CRUISE.
C29_CruiseLeftForGood ==
    [][/\ Evaluated' => current_phase' \notin {"cruise", "landing"}
       /\ (current_phase' = "initial_descent" /\ current_phase # "initial_descent")
              => current_phase = "cruise"]_vars

\* Past an evaluation above 15000 ft that took CRUISE to INITIAL_DESCENT, another
\* one above 15000 ft: the phase stays INITIAL_DESCENT.
C29_Witness ==
    /\ Evaluated
    /\ flight_state.altitude > 15000
    /\ flight_state.distance_to_runway > 15
    /\ current_phase = "initial_descent"
    /\ descent_commands # <<>>

----------------------------------------------------------------------------
(* ATC_11.py: several frontend clients on the one command manager *)

FrontendClients == {"frontend1", "frontend2"}

\* @socketio.on('connect'), run for the client that connects.
client_connect ==
    \E sid \in FrontendClients \ clients :
        /\ clients' = clients \cup {sid}
        /\ is_connected' = TRUE
        /\ UNCHANGED <<program, now, snapshot, outcome, schedule_result, combo_log,
                       optimizerVars, conflictVars, historyVars, descentVars, malformed,
                       solution, backendVars, path_decisions, wind_data, wind_query,
                       command_history, all_sent>>

\* @socketio.on('disconnect'), run for the client that goes.
client_disconnect ==
    \E sid \in clients :
        /\ clients' = clients \ {sid}
        /\ is_connected' = FALSE
        /\ UNCHANGED <<program, now, snapshot, outcome, schedule_result, combo_log,
                       optimizerVars, conflictVars, historyVars, descentVars, malformed,
                       solution, backendVars, path_decisions, wind_data, wind_query,
                       command_history, all_sent>>

\* @socketio.on('aircraft_data'), the event coming from a client that is connected.
client_aircraft_data ==
    /\ clients # {}
    /\ handle_aircraft_data_timed

NextClients == client_connect \/ client_disconnect \/ client_aircraft_data

SpecClients == Init /\ [][NextClients]_vars

\* C30: is_connected is true exactly when a frontend client is connected.
C30_ConnectedIffClients == is_connected <=> clients # {}
====
